---- MODULE Spec2Model ----
(***************************************************************************)
(* State machine of the chunk -> transcript -> segment pipeline:           *)
(* StateService.handleSuccess / mergeAndMaybeSummarize, the summarizer,    *)
(* FinalizeController.finalize and the Redis entity store they share.      *)
(*                                                                         *)
(* One session ("s1") is modelled.  Every await on the entity store, the   *)
(* object storage or a lambda is one atomic step, so concurrent requests   *)
(* interleave exactly at the points where the Node.js event loop can       *)
(* switch between them.                                                    *)
(*                                                                         *)
(* Two revisions of StateService are in the sources.  Spec models the one  *)
(* with the idempotency guard (src/src/state/state.service.ts:1-264),      *)
(* SpecWM the one with the dedup watermark (src/unnamed/part_001:1-284).   *)
(*                                                                         *)
(* Text is a sequence of characters (one-character strings; "LRM" stands   *)
(* for U+200E).  Times are in centiseconds, so 10.3 s is 1030 and the      *)
(* epsilon of 0.15 s is 15.                                                *)
(***************************************************************************)
EXTENDS Integers, Sequences, FiniteSets, TLC

\* ------------------------------------------------------------------ bounds
MaxCalls == 2        \* Spec, SpecWM: requests ever started, all may overlap
MaxRaceCalls == 3    \* SpecRace: requests ever started ...
MaxInFlight == 2     \* SpecRace: ... of which so many overlap at a time
MaxSeq == 6          \* chunk sequence numbers 1..MaxSeq
tokenThreshold == 3  \* ROLLING_THRESHOLD_TOKENS of the modelled deployment
MaxChunkCalls == 5   \* SpecChunk: requests ever started ...
MaxChunkInFlight == 2  \* SpecChunk: ... of which so many overlap at a time
MaxBodyInFlight == 1   \* SpecCallbackBodies: callbacks handled at a time

Larger(a, b) == IF a > b THEN a ELSE b
MaxSlots == Larger(Larger(MaxCalls, MaxRaceCalls), MaxChunkCalls)
Calls == 1..MaxSlots
Seqs == 1..MaxSeq

\* ------------------------------------------------------- JavaScript values
\* Every time and count of the model lies far above -1000000, so two
\* numbers below that range are free to stand for the two JavaScript values
\* that are not numbers.
NaN == 0 - 1000000
undefined == 0 - 2000000

IsNumber(x) == x > NaN

\* a - b on JavaScript numbers: undefined converts to NaN, NaN is absorbing
JsMinus(a, b) == IF IsNumber(a) /\ IsNumber(b) THEN a - b ELSE NaN

\* a > b on JavaScript numbers: every comparison with NaN is false
JsGreater(a, b) == IF IsNumber(a) /\ IsNumber(b) THEN a > b ELSE FALSE

\* Math.max(a, b): NaN if either argument is NaN or undefined
MathMax(a, b) == IF IsNumber(a) /\ IsNumber(b)
                 THEN (IF a >= b THEN a ELSE b) ELSE NaN

\* Number(x) || 0
NumberOrZero(x) == IF IsNumber(x) THEN x ELSE 0

\* ------------------------------------------------------------------- text
SP == " "
STRIP_BIDI == {"LRM"}
EmptyText == << >>

cleanupWord(s) == SelectSeq(s, LAMBDA ch : ch \notin STRIP_BIDI)

\* Variant that rounds down: used to show that
\* C8_TokenCountIsSumOfEstimates depends on the rounding.
estimateTokens_Floor(text) == Len(text) \div 4

\* Math.ceil(text.length / 4)
estimateTokens(text) == (Len(text) + 3) \div 4

RECURSIVE TrimLeft(_)
TrimLeft(s) == IF s # << >> /\ Head(s) = SP THEN TrimLeft(Tail(s)) ELSE s

RECURSIVE TrimRight(_)
TrimRight(s) == IF s # << >> /\ s[Len(s)] = SP
                THEN TrimRight(SubSeq(s, 1, Len(s) - 1)) ELSE s

\* String.prototype.trim
Trim(s) == TrimRight(TrimLeft(s))

\* replace(/\s+/g, ' ')
RECURSIVE CollapseWhitespace(_)
CollapseWhitespace(s) ==
    IF s = << >> THEN << >>
    ELSE IF Head(s) = SP
         THEN << SP >> \o CollapseWhitespace(TrimLeft(s))
         ELSE << Head(s) >> \o CollapseWhitespace(Tail(s))

RECURSIVE JoinWords(_)
JoinWords(words) == IF words = << >> THEN << >>
                    ELSE Head(words).word \o JoinWords(Tail(words))

cleanJoin(words) == Trim(CollapseWhitespace(JoinWords(words)))

\* Array.prototype.sort with the comparator a.start - b.start (stable)
RECURSIVE InsertByStart(_, _)
InsertByStart(w, sorted) ==
    IF sorted = << >> THEN << w >>
    ELSE IF Head(sorted).start <= w.start
         THEN << Head(sorted) >> \o InsertByStart(w, Tail(sorted))
         ELSE << w >> \o sorted

RECURSIVE SortByStart(_)
SortByStart(words) ==
    IF words = << >> THEN << >>
    ELSE InsertByStart(words[Len(words)],
                       SortByStart(SubSeq(words, 1, Len(words) - 1)))

\* x ?? y
Coalesce(x, y) == IF x = undefined THEN y ELSE x

RECURSIVE FlattenTopLevel(_, _)
FlattenTopLevel(wt, offsetSeconds) ==
    IF wt = << >> THEN << >>
    ELSE LET w == Head(wt) IN
         << [word  |-> cleanupWord(w.word) \o << SP >>,
             start |-> Coalesce(w.start, 0) + offsetSeconds,
             end   |-> Coalesce(w.end, Coalesce(w.start, 0)) + offsetSeconds] >>
         \o FlattenTopLevel(Tail(wt), offsetSeconds)

RECURSIVE FlattenSegmentWords(_, _, _)
FlattenSegmentWords(ws, startBase, offsetSeconds) ==
    IF ws = << >> THEN << >>
    ELSE LET w == Head(ws) IN
         << [word  |-> cleanupWord(w.word) \o << SP >>,
             start |-> Coalesce(w.start, startBase) + offsetSeconds,
             end   |-> Coalesce(w.end, Coalesce(w.start, startBase))
                       + offsetSeconds] >>
         \o FlattenSegmentWords(Tail(ws), startBase, offsetSeconds)

RECURSIVE FlattenSegments(_, _)
FlattenSegments(segs, offsetSeconds) ==
    IF segs = << >> THEN << >>
    ELSE LET s == Head(segs)
             startBase == Coalesce(s.start, 0) + offsetSeconds
             endBase == Coalesce(s.end, Coalesce(s.start, 0)) + offsetSeconds
         IN  (IF s.words # << >>
              THEN FlattenSegmentWords(s.words, startBase, offsetSeconds)
              ELSE << [word  |-> cleanupWord(s.text) \o << SP >>,
                       start |-> startBase,
                       end   |-> endBase] >>)
             \o FlattenSegments(Tail(segs), offsetSeconds)

flattenWords(output, offsetSeconds) ==
    IF output.word_timestamps # << >>
    THEN SortByStart(FlattenTopLevel(output.word_timestamps, offsetSeconds))
    ELSE SortByStart(FlattenSegments(output.segments, offsetSeconds))

\* ----------------------------------------------- transcription results
\* The remote worker's result for each chunk.  A redelivered callback
\* carries the same payload, so the result is a function of seq.
Outputs ==
    << \* word_timestamps, delivered out of order; words up to 10.30 s
       [language |-> "he",
        word_timestamps |->
          << [word |-> << "e", "f", "g", "h" >>, start |-> 1000, end |-> 1030],
             [word |-> << "a", "b", "c", "d" >>, start |-> 980, end |-> 1000] >>,
        segments |-> << >>],
       \* overlaps the previous chunk: a word ending at 10.20 s, one at 10.35 s
       [language |-> "he",
        word_timestamps |->
          << [word |-> << "e", "f", "g", "h" >>, start |-> 1000, end |-> 1020],
             [word |-> << "i", "j", "k", "l" >>, start |-> 1020, end |-> 1035] >>,
        segments |-> << >>],
       \* no top-level words: segments[] with their own word lists
       [language |-> "",
        word_timestamps |-> << >>,
        segments |->
          << [text |-> << "k", "l", "m", SP, "n", "o", "p", "q", "r" >>,
              start |-> 2000, end |-> 2100,
              words |->
                << [word |-> << SP, "k", "l", "m" >>, start |-> 2000, end |-> 2050],
                   [word |-> << SP, SP, "n", "o", "p", "q", "r" >>,
                    start |-> undefined, end |-> undefined] >>] >>],
       \* no word-level timing: the segment text is one token; bidi mark inside
       [language |-> "he",
        word_timestamps |-> << >>,
        segments |->
          << [text |-> << SP, "a", "LRM", "b", SP, SP >>,
              start |-> 3000, end |-> 3100, words |-> << >>] >>],
       \* silence: nothing transcribed
       [language |-> "",
        word_timestamps |-> << >>,
        segments |-> << >>],
       \* a single word without an end time
       [language |-> "he",
        word_timestamps |->
          << [word |-> << "z" >>, start |-> 5000, end |-> undefined] >>,
        segments |-> << >>] >>

OutputOf(seq) == Outputs[((seq - 1) % Len(Outputs)) + 1]

\* the chunk's start offset carried by the callback URL (startMs)
StartMsOf(seq) == (seq - 1) * 10000

\* ----------------------------------------------------------- entity store
\* A Redis hash is a function from the field names that were ever HSET to
\* their values; a key that does not exist is the hash with no field.
EmptyHash == [f \in {} |-> 0]

\* HSET key field value [field value ...]
HSet(h, u) == [f \in (DOMAIN u) \cup (DOMAIN h) |->
                 IF f \in DOMAIN u THEN u[f] ELSE h[f]]

Field(h, f, default) == IF f \in DOMAIN h THEN h[f] ELSE default

NoKey == << "null", 0 >>
TranscriptKey(seq) == << "transcripts/chunk", seq >>
SegInputKey(idx) == << "segments/input", idx >>
SummaryKey(idx) == << "segments/summary", idx >>

\* RedisService.getSession: null for a missing key, otherwise exactly the
\* fields the method copies out of the hash
NullSession == [found |-> FALSE, status |-> "undefined",
                rollingTokenCount |-> 0, nextSegmentIndex |-> 0,
                endRequested |-> FALSE, rollingText |-> EmptyText]

getSession(h) ==
    IF DOMAIN h = {} THEN NullSession
    ELSE [found |-> TRUE,
          status |-> Field(h, "status", "undefined"),
          rollingTokenCount |-> NumberOrZero(Field(h, "rollingTokenCount", undefined)),
          nextSegmentIndex |-> NumberOrZero(Field(h, "nextSegmentIndex", undefined)),
          endRequested |-> (Field(h, "endRequested", FALSE) = TRUE),
          rollingText |-> Field(h, "rollingText", EmptyText)]

\* a property read on the object getSession returned
Prop(obj, name) == IF name \in DOMAIN obj THEN obj[name] ELSE undefined

\* a body field that is not there (undefined), and null, among strings
absent == "undefined"
null == "null"

\* m.errorCode ? String(m.errorCode) : null
StringOrNull(v) == IF v = "" THEN null ELSE v

NullChunk == [found |-> FALSE, status |-> "undefined", transcriptS3Key |-> NoKey,
              errorCode |-> null, errorMessage |-> null]

getChunk(h) ==
    IF DOMAIN h = {} THEN NullChunk
    ELSE [found |-> TRUE,
          status |-> Field(h, "status", "undefined"),
          transcriptS3Key |-> Field(h, "transcriptS3Key", NoKey),
          errorCode |-> StringOrNull(Field(h, "errorCode", "")),
          errorMessage |-> StringOrNull(Field(h, "errorMessage", ""))]

\* Variant of the guard that tests for the worker's status name: used to
\* show that C1_DuplicateSuccessIsNoOp depends on the guard.
IsDuplicateSuccess_RemoteStatus(existing) ==
    existing.found /\ existing.status = "COMPLETED"
                   /\ existing.transcriptS3Key # NoKey

\* StateService.handleSuccess, the idempotency guard
IsDuplicateSuccess(existing) ==
    existing.found /\ existing.status = "SUCCEEDED"
                   /\ existing.transcriptS3Key # NoKey

\* mergeAndMaybeSummarize (guard revision): append with one separating space
combinedText(rollingText, text) ==
    IF rollingText # EmptyText THEN rollingText \o << SP >> \o text ELSE text

\* Variant that cuts only above the threshold: used to show that
\* C6_CutExactlyAtThreshold depends on the comparison being >=.
shouldSummarize_Above(combined, newTokenCount, threshold) ==
    Len(Trim(combined)) > 0 /\ newTokenCount > threshold

shouldSummarize(combined, newTokenCount, threshold) ==
    Len(Trim(combined)) > 0 /\ newTokenCount >= threshold

\* the text mergeAndMaybeSummarize (guard revision) computes for a chunk:
\* flattenWords(output) with the default offset 0, then cleanJoin
Texts == [q \in Seqs |-> cleanJoin(flattenWords(OutputOf(q), 0))]
TextOf(seq) == Texts[seq]

\* ------------------------------------------------------------------ state
VARIABLES
    session,          \* hash session:s1
    chunks,           \* seq -> hash chunk:s1:seq
    segments,         \* segmentIndex -> hash segment:s1:idx
    s3,               \* object storage: key -> body, NoObject if never put
    s3Puts,           \* number of putObject calls so far
    summarizerCalls,  \* segmentIndex -> number of summarizer lambda invocations
    finalizerCalls,   \* number of finalizer lambda invocations
    calls,            \* the requests: position and locals of each
    started,          \* number of requests started so far
    quota,            \* how many requests this run starts, how many may overlap
    mq,               \* the work queue and the jobs accepted by the remote worker
    rollingParts      \* history: the texts appended to rollingText since it was last reset

vars == << session, chunks, segments, s3, s3Puts, summarizerCalls,
           finalizerCalls, calls, started, quota, mq, rollingParts >>

SegIdx == 0..MaxSlots
NoObject == << "absent" >>
RawKey(seq) == << "raw/chunk", seq >>
S3Keys == {TranscriptKey(q) : q \in Seqs}
          \cup {RawKey(q) : q \in Seqs}
          \cup {SegInputKey(i) : i \in SegIdx}
          \cup {SummaryKey(i) : i \in SegIdx}
          \cup {<< "final/consolidated-summary", 0 >>}
ConsolidatedKey == << "final/consolidated-summary", 0 >>

\* kind, pc: which handler, and where in it; seq, sess, idx, keys: its locals.
\* History kept for the properties: parts (rollingParts when sess was read),
\* after (the requests that had returned when this one was accepted).
\* ------------------------------------------------- inputs of a callback
\* the status strings the worker is seen to send ("" for a missing status)
StatusInputs == {"in_queue", "IN_PROGRESS", "FAILED", "cancelled",
                 "UNKNOWN_FOO", ""}

\* the status strings of a successful transcription
SuccessInputs == {"SUCCEEDED", "completed"}

\* body.errorCode, body.errorMessage of a callback
ErrorInputs == {absent, "E42"}

\* a variant that compares the status as it was sent
toUpperCase_AsSent(str) == str

\* String.prototype.toUpperCase on those strings
toUpperCase(str) ==
    CASE str = "in_queue" -> "IN_QUEUE"
      [] str = "cancelled" -> "CANCELLED"
      [] str = "completed" -> "COMPLETED"
      [] OTHER -> str

\* body?.errorCode || null
OrNull(v) == IF v \in {absent, null, ""} THEN null ELSE v

\* updates.errorCode ?? '' (RedisService.updateChunk)
NullishToEmpty(v) == IF v \in {absent, null} THEN "" ELSE v

IdleCall == [kind |-> "idle", pc |-> "idle", seq |-> 0, sess |-> NullSession,
             idx |-> 0, keys |-> << >>, parts |-> << >>, after |-> {},
             result |-> "", status |-> "none", payload |-> "none",
             errorCode |-> absent, errorMessage |-> absent, text |-> << >>]

InFlight == {c \in Calls : calls[c].kind # "idle" /\ calls[c].pc # "done"}

InitStores ==
    /\ session = EmptyHash
    /\ chunks = [q \in Seqs |-> EmptyHash]
    /\ segments = [i \in SegIdx |-> EmptyHash]
    /\ s3 = [k \in S3Keys |-> NoObject]
    /\ s3Puts = 0
    /\ summarizerCalls = [i \in SegIdx |-> 0]
    /\ finalizerCalls = 0
    /\ calls = [c \in Calls |-> IdleCall]
    /\ started = 0
    /\ mq = [queue |-> [q \in Seqs |-> 0], jobs |-> {},
             acks |-> [c \in Calls |-> 0], nacks |-> [c \in Calls |-> 0]]
    /\ rollingParts = << >>

Init ==
    /\ InitStores
    /\ quota = [calls |-> MaxCalls, inFlight |-> MaxCalls,
                seqs |-> Seqs, pipeline |-> FALSE,
                payloads |-> {"json"}, faults |-> FALSE,
                statuses |-> {"SUCCEEDED"}, errors |-> {absent}]

InitRace ==
    /\ InitStores
    /\ quota = [calls |-> MaxRaceCalls, inFlight |-> MaxInFlight,
                seqs |-> Seqs, pipeline |-> FALSE,
                payloads |-> {"json"}, faults |-> FALSE,
                statuses |-> {"SUCCEEDED"}, errors |-> {absent}]

\* the whole pipeline for the chunks ChunkSeqs: upload, queue consumer,
\* callbacks; the worker calls back only for jobs it has accepted
ChunkSeqs == {1, 4}
InitChunk ==
    /\ InitStores
    /\ quota = [calls |-> MaxChunkCalls, inFlight |-> MaxChunkInFlight,
                seqs |-> ChunkSeqs, pipeline |-> TRUE,
                payloads |-> {"json"}, faults |-> FALSE,
                statuses |-> {"SUCCEEDED"}, errors |-> {absent}]

\* callbacks of the remote worker for the chunks ChunkSeqs, the upload and
\* the queue left out: the callback handler reads no upload state
InitCallback ==
    /\ InitStores
    /\ quota = [calls |-> MaxCalls, inFlight |-> MaxCalls,
                seqs |-> ChunkSeqs, pipeline |-> FALSE,
                payloads |-> {"json"}, faults |-> FALSE,
                statuses |-> {"SUCCEEDED"}, errors |-> {absent}]

\* the same with every spelling of the success status and every error
\* field a callback body can carry
InitCallbackBodies ==
    /\ InitStores
    /\ quota = [calls |-> MaxCalls, inFlight |-> MaxBodyInFlight,
                seqs |-> ChunkSeqs, pipeline |-> FALSE,
                payloads |-> {"json"}, faults |-> FALSE,
                statuses |-> SuccessInputs, errors |-> ErrorInputs]

\* success callbacks for the chunks ChunkSeqs (chunk 1 fills a segment, chunk
\* 4 does not) and finalize requests, MaxInFlight of them at a time
InitFinalize ==
    /\ InitStores
    /\ quota = [calls |-> MaxRaceCalls, inFlight |-> MaxInFlight,
                seqs |-> ChunkSeqs, pipeline |-> FALSE,
                payloads |-> {"json"}, faults |-> FALSE,
                statuses |-> {"SUCCEEDED"}, errors |-> {absent}]

\* success callbacks and finalize requests for the chunks ChunkSeqs, with a
\* summary lambda whose answer may fail to parse
InitSummarizer ==
    /\ InitStores
    /\ quota = [calls |-> MaxCalls, inFlight |-> MaxCalls,
                seqs |-> ChunkSeqs, pipeline |-> FALSE,
                payloads |-> {"json", "malformed"}, faults |-> FALSE,
                statuses |-> {"SUCCEEDED"}, errors |-> {absent}]

\* success callbacks and finalize requests for the chunks ChunkSeqs, where
\* any awaited operation may reject
InitFault ==
    /\ InitStores
    /\ quota = [calls |-> MaxCalls, inFlight |-> MaxCalls,
                seqs |-> ChunkSeqs, pipeline |-> FALSE,
                payloads |-> {"json"}, faults |-> TRUE,
                statuses |-> {"SUCCEEDED"}, errors |-> {absent}]

\* uploads and the queue consumer for the chunks ChunkSeqs, where any
\* awaited operation may reject
InitDispatch ==
    /\ InitStores
    /\ quota = [calls |-> MaxRaceCalls, inFlight |-> MaxInFlight,
                seqs |-> ChunkSeqs, pipeline |-> TRUE,
                payloads |-> {"json"}, faults |-> TRUE,
                statuses |-> {"SUCCEEDED"}, errors |-> {absent}]

\* a request is accepted: the next free slot, in order
CanStart(c) ==
    /\ calls[c].kind = "idle"
    /\ c = started + 1
    /\ started < quota.calls
    /\ Cardinality(InFlight) < quota.inFlight

\* a callback of the remote worker for chunk seq arrives
CallbackArrives(c, seq) ==
    /\ CanStart(c)
    /\ seq \in quota.seqs
    /\ quota.pipeline => seq \in mq.jobs

Finish(c, result) ==
    [IdleCall EXCEPT !.kind = calls[c].kind, !.seq = calls[c].seq,
                     !.after = calls[c].after,
                     !.pc = "done", !.result = result]

putObject(key, body) ==
    /\ s3' = [s3 EXCEPT ![key] = body]
    /\ s3Puts' = s3Puts + 1

\* ------------------------------------- StateService.handleSuccess (guard)
\* callback SUCCEEDED/COMPLETED arrives; getChunk and the idempotency guard
handleSuccess_getChunk(c, seq, rawStatus) ==
    /\ CallbackArrives(c, seq)
    /\ rawStatus \in quota.statuses
    /\ toUpperCase(rawStatus) \in {"SUCCEEDED", "COMPLETED"}
    /\ started' = started + 1
    /\ LET existing == getChunk(chunks[seq]) IN
       calls' = [calls EXCEPT ![c] =
                   IF IsDuplicateSuccess(existing)
                   THEN [IdleCall EXCEPT !.kind = "hs", !.seq = seq,
                                         !.status = rawStatus,
                                         !.pc = "done", !.result = "duplicate"]
                   ELSE [IdleCall EXCEPT !.kind = "hs", !.seq = seq,
                                         !.status = rawStatus,
                                         !.pc = "putTranscript"]]
    /\ UNCHANGED << quota, mq, session, chunks, segments, s3, s3Puts, summarizerCalls,
                    finalizerCalls, rollingParts >>

handleSuccess_putObject(c) ==
    /\ calls[c].kind = "hs" /\ calls[c].pc = "putTranscript"
    /\ putObject(TranscriptKey(calls[c].seq), << "transcript", calls[c].seq >>)
    /\ calls' = [calls EXCEPT ![c].pc = "updateChunk"]
    /\ UNCHANGED << quota, mq, session, chunks, segments, summarizerCalls,
                    finalizerCalls, started, rollingParts >>

handleSuccess_updateChunk(c) ==
    /\ calls[c].kind = "hs" /\ calls[c].pc = "updateChunk"
    /\ chunks' = [chunks EXCEPT ![calls[c].seq] =
                    HSet(@, [status |-> "SUCCEEDED",
                             transcriptS3Key |-> TranscriptKey(calls[c].seq),
                             language |-> OutputOf(calls[c].seq).language])]
    /\ calls' = [calls EXCEPT ![c].pc = "getSession"]
    /\ UNCHANGED << quota, mq, session, segments, s3, s3Puts, summarizerCalls,
                    finalizerCalls, started, rollingParts >>

\* ------------------------------ StateService.mergeAndMaybeSummarize (guard)
merge_getSession(c) ==
    /\ calls[c].kind = "hs" /\ calls[c].pc = "getSession"
    /\ LET s == getSession(session) IN
       calls' = [calls EXCEPT ![c].sess = s, ![c].parts = rollingParts,
                              ![c].pc = IF s.found THEN "merge" ELSE "createSession"]
    /\ UNCHANGED << quota, mq, session, chunks, segments, s3, s3Puts, summarizerCalls,
                    finalizerCalls, started, rollingParts >>

\* a variant whose createSession is an insert that rejects an existing key
merge_createSession_Insert(c) ==
    /\ calls[c].kind = "hs" /\ calls[c].pc = "createSession"
    /\ IF session # EmptyHash
       THEN /\ calls' = [calls EXCEPT ![c] = Finish(c, "error")]
            /\ UNCHANGED << session, rollingParts >>
       ELSE /\ session' = HSet(session,
                               [sessionId |-> "s1", status |-> "TRANSCRIBING",
                                rollingTokenCount |-> 0, nextSegmentIndex |-> 0,
                                endRequested |-> FALSE, rollingText |-> EmptyText])
            /\ rollingParts' = << >>
            /\ calls' = [calls EXCEPT ![c].pc = "getSessionAgain"]
    /\ UNCHANGED << quota, mq, chunks, segments, s3, s3Puts, summarizerCalls,
                    finalizerCalls, started >>

merge_createSession(c) ==
    /\ calls[c].kind = "hs" /\ calls[c].pc = "createSession"
    /\ session' = HSet(session, [sessionId |-> "s1", status |-> "TRANSCRIBING",
                                 rollingTokenCount |-> 0, nextSegmentIndex |-> 0,
                                 endRequested |-> FALSE, rollingText |-> EmptyText])
    /\ rollingParts' = << >>
    /\ calls' = [calls EXCEPT ![c].pc = "getSessionAgain"]
    /\ UNCHANGED << quota, mq, chunks, segments, s3, s3Puts, summarizerCalls,
                    finalizerCalls, started >>

\* the re-read after createSession; a session that is still missing throws
merge_getSessionAgain(c) ==
    /\ calls[c].kind = "hs" /\ calls[c].pc = "getSessionAgain"
    /\ LET s == getSession(session) IN
       calls' = [calls EXCEPT ![c] =
                   IF s.found
                   THEN [@ EXCEPT !.sess = s, !.parts = rollingParts, !.pc = "merge"]
                   ELSE Finish(c, "error")]
    /\ UNCHANGED << quota, mq, session, chunks, segments, s3, s3Puts, summarizerCalls,
                    finalizerCalls, started, rollingParts >>

\* Variant that forgets the tokens already accumulated: used to show that
\* C7_CutRecordsAndResets depends on the sum.
NewTokenCount_ChunkOnly(c) == estimateTokens(TextOf(calls[c].seq))

\* the locals mergeAndMaybeSummarize computes between the read and the write
NewTokenCount(c) == calls[c].sess.rollingTokenCount + estimateTokens(TextOf(calls[c].seq))
Combined(c) == combinedText(calls[c].sess.rollingText, TextOf(calls[c].seq))
ShouldCut(c) == shouldSummarize(Combined(c), NewTokenCount(c), tokenThreshold)

\* below the threshold: store the accumulated rolling state and return
merge_updateSession(c) ==
    /\ calls[c].kind = "hs" /\ calls[c].pc = "merge"
    /\ ~ShouldCut(c)
    /\ session' = HSet(session, [rollingText |-> Combined(c),
                                 rollingTokenCount |-> NewTokenCount(c)])
    /\ rollingParts' = Append(calls[c].parts, TextOf(calls[c].seq))
    /\ calls' = [calls EXCEPT ![c] = Finish(c, "ok")]
    /\ UNCHANGED << quota, mq, chunks, segments, s3, s3Puts, summarizerCalls,
                    finalizerCalls, started >>

\* at or above the threshold: insert the segment row (PENDING)
merge_createSegment(c) ==
    /\ calls[c].kind = "hs" /\ calls[c].pc = "merge"
    /\ ShouldCut(c)
    /\ LET idx == calls[c].sess.nextSegmentIndex IN
       /\ segments' = [segments EXCEPT ![idx] =
                         HSet(@, [sessionId |-> "s1", segmentIndex |-> idx,
                                  status |-> "PENDING",
                                  tokenCount |-> NewTokenCount(c)])]
       /\ calls' = [calls EXCEPT ![c].idx = idx, ![c].pc = "resetRolling"]
    /\ UNCHANGED << quota, mq, session, chunks, s3, s3Puts, summarizerCalls,
                    finalizerCalls, started, rollingParts >>

\* reset rolling state and advance the segment index
merge_resetRolling(c) ==
    /\ calls[c].kind = "hs" /\ calls[c].pc = "resetRolling"
    /\ session' = HSet(session, [nextSegmentIndex |-> calls[c].idx + 1,
                                 rollingTokenCount |-> 0,
                                 rollingText |-> EmptyText])
    /\ rollingParts' = << >>
    /\ calls' = [calls EXCEPT ![c].pc = "putSegInput"]
    /\ UNCHANGED << quota, mq, chunks, segments, s3, s3Puts, summarizerCalls,
                    finalizerCalls, started >>

merge_putObject(c) ==
    /\ calls[c].kind = "hs" /\ calls[c].pc = "putSegInput"
    /\ putObject(SegInputKey(calls[c].idx), Trim(Combined(c)))
    /\ calls' = [calls EXCEPT ![c].pc = "summarizing", ![c].sess = NullSession,
                              ![c].parts = << >>]
    /\ UNCHANGED << quota, mq, session, chunks, segments, summarizerCalls,
                    finalizerCalls, started, rollingParts >>

\* --------------------------------- SummarizerService.invokeChunkSummarizer
\* runs inside the request that cut the segment (awaited by the caller)
summarizer_updateSegment(c) ==
    /\ calls[c].kind \in {"hs", "fin"} /\ calls[c].pc = "summarizing"
    /\ segments' = [segments EXCEPT ![calls[c].idx] =
                      HSet(@, [status |-> "SUMMARIZING"])]
    /\ calls' = [calls EXCEPT ![c].pc = "lambda"]
    /\ UNCHANGED << quota, mq, session, chunks, s3, s3Puts, summarizerCalls,
                    finalizerCalls, started, rollingParts >>

\* what the summary lambda may answer: a JSON document or bytes that do not
\* parse
Payloads == {"json", "malformed"}

\* JSON.stringify(j) with j = JSON.parse(payload), or {} when parsing throws
StoredSummary(payload, idx) ==
    IF payload = "json" THEN << "summary", idx >> ELSE << "{}" >>

\* getSession for the business identifiers, then the summary lambda, sent
\* chunks: [{ index, start: 0, end: 0, text }] where text is the third
\* argument of invokeChunkSummarizer: its callers pass segInputKey
summarizer_lambda(c, payload) ==
    /\ calls[c].kind \in {"hs", "fin"} /\ calls[c].pc = "lambda"
    /\ payload \in quota.payloads
    /\ summarizerCalls' = [summarizerCalls EXCEPT ![calls[c].idx] = @ + 1]
    /\ calls' = [calls EXCEPT ![c].pc = "putSummary", ![c].payload = payload,
                              ![c].text = SegInputKey(calls[c].idx)]
    /\ UNCHANGED << quota, mq, session, chunks, segments, s3, s3Puts,
                    finalizerCalls, started, rollingParts >>

summarizer_putObject(c) ==
    /\ calls[c].kind \in {"hs", "fin"} /\ calls[c].pc = "putSummary"
    /\ putObject(SummaryKey(calls[c].idx),
                 StoredSummary(calls[c].payload, calls[c].idx))
    /\ calls' = [calls EXCEPT ![c].pc = "markSucceeded"]
    /\ UNCHANGED << quota, mq, session, chunks, segments, summarizerCalls,
                    finalizerCalls, started, rollingParts >>

\* the last write of the summarizer; control returns to the caller
summarizer_markSucceeded(c) ==
    /\ calls[c].kind \in {"hs", "fin"} /\ calls[c].pc = "markSucceeded"
    /\ segments' = [segments EXCEPT ![calls[c].idx] =
                      HSet(@, [status |-> "SUCCEEDED",
                               summaryS3Key |-> SummaryKey(calls[c].idx)])]
    /\ calls' = [calls EXCEPT ![c] =
                   IF calls[c].kind = "hs" THEN Finish(c, "ok")
                   ELSE [@ EXCEPT !.pc = "finResetRolling"]]
    /\ UNCHANGED << quota, mq, session, chunks, s3, s3Puts, summarizerCalls,
                    finalizerCalls, started, rollingParts >>

\* ------------------------------------------- FinalizeController.finalize
\* a variant that starts finalize without marking the session
finalize_updateSession_NoMark(c) ==
    /\ CanStart(c)
    /\ started' = started + 1
    /\ session' = HSet(session, [endRequested |-> TRUE])
    /\ calls' = [calls EXCEPT ![c] =
                   [IdleCall EXCEPT !.kind = "fin", !.pc = "finGetSession",
                                    !.after = {d \in Calls : calls[d].pc = "done"}]]
    /\ UNCHANGED << quota, mq, chunks, segments, s3, s3Puts, summarizerCalls,
                    finalizerCalls, rollingParts >>

finalize_updateSession(c) ==
    /\ CanStart(c)
    /\ started' = started + 1
    /\ session' = HSet(session, [endRequested |-> TRUE, status |-> "FINALIZING"])
    /\ calls' = [calls EXCEPT ![c] =
                   [IdleCall EXCEPT !.kind = "fin", !.pc = "finGetSession",
                                    !.after = {d \in Calls : calls[d].pc = "done"}]]
    /\ UNCHANGED << quota, mq, chunks, segments, s3, s3Puts, summarizerCalls,
                    finalizerCalls, rollingParts >>

finalize_getSession(c) ==
    /\ calls[c].kind = "fin" /\ calls[c].pc = "finGetSession"
    /\ LET s == getSession(session) IN
       calls' = [calls EXCEPT ![c] =
                   IF s.found /\ Trim(s.rollingText) # EmptyText
                   THEN [@ EXCEPT !.sess = s, !.idx = s.nextSegmentIndex,
                                  !.pc = "finPutSegInput"]
                   ELSE [@ EXCEPT !.pc = "finGetSegments"]]
    /\ UNCHANGED << quota, mq, session, chunks, segments, s3, s3Puts, summarizerCalls,
                    finalizerCalls, started, rollingParts >>

finalize_putObject(c) ==
    /\ calls[c].kind = "fin" /\ calls[c].pc = "finPutSegInput"
    /\ putObject(SegInputKey(calls[c].idx), Trim(calls[c].sess.rollingText))
    /\ calls' = [calls EXCEPT ![c].pc = "finCreateSegment", ![c].sess = NullSession]
    /\ UNCHANGED << quota, mq, session, chunks, segments, summarizerCalls,
                    finalizerCalls, started, rollingParts >>

finalize_createSegment(c) ==
    /\ calls[c].kind = "fin" /\ calls[c].pc = "finCreateSegment"
    /\ segments' = [segments EXCEPT ![calls[c].idx] =
                      HSet(@, [sessionId |-> "s1", segmentIndex |-> calls[c].idx,
                               status |-> "PENDING"])]
    /\ calls' = [calls EXCEPT ![c].pc = "summarizing"]
    /\ UNCHANGED << quota, mq, session, chunks, s3, s3Puts, summarizerCalls,
                    finalizerCalls, started, rollingParts >>

\* a variant that clears the buffer without advancing the index
finalize_resetRolling_KeepIndex(c) ==
    /\ calls[c].kind = "fin" /\ calls[c].pc = "finResetRolling"
    /\ session' = HSet(session, [nextSegmentIndex |-> calls[c].idx,
                                 rollingText |-> EmptyText,
                                 rollingTokenCount |-> 0])
    /\ rollingParts' = << >>
    /\ calls' = [calls EXCEPT ![c].pc = "finGetSegments"]
    /\ UNCHANGED << quota, mq, chunks, segments, s3, s3Puts, summarizerCalls,
                    finalizerCalls, started >>

finalize_resetRolling(c) ==
    /\ calls[c].kind = "fin" /\ calls[c].pc = "finResetRolling"
    /\ session' = HSet(session, [nextSegmentIndex |-> calls[c].idx + 1,
                                 rollingText |-> EmptyText,
                                 rollingTokenCount |-> 0])
    /\ rollingParts' = << >>
    /\ calls' = [calls EXCEPT ![c].pc = "finGetSegments"]
    /\ UNCHANGED << quota, mq, chunks, segments, s3, s3Puts, summarizerCalls,
                    finalizerCalls, started >>

\* RedisService.getSegmentsBySession: the existing segment hashes by index
\* a variant that lists a key for every segment, summarized or not
RECURSIVE SummaryKeysFrom_All(_, _)
SummaryKeysFrom_All(segs, i) ==
    IF i > MaxSlots THEN << >>
    ELSE (IF DOMAIN segs[i] # {}
          THEN << Field(segs[i], "summaryS3Key", NoKey) >> ELSE << >>)
         \o SummaryKeysFrom_All(segs, i + 1)

RECURSIVE SummaryKeysFrom(_, _)
SummaryKeysFrom(segs, i) ==
    IF i > MaxSlots THEN << >>
    ELSE (IF DOMAIN segs[i] # {} /\ Field(segs[i], "summaryS3Key", NoKey) # NoKey
          THEN << segs[i].summaryS3Key >> ELSE << >>)
         \o SummaryKeysFrom(segs, i + 1)

finalize_getSegments(c) ==
    /\ calls[c].kind = "fin" /\ calls[c].pc = "finGetSegments"
    /\ calls' = [calls EXCEPT ![c].keys = SummaryKeysFrom(segments, 0),
                              ![c].pc = "finCombine"]
    /\ UNCHANGED << quota, mq, session, chunks, segments, s3, s3Puts, summarizerCalls,
                    finalizerCalls, started, rollingParts >>

\* SummarizerService.combineSegments: read the summaries, write the artifact
finalize_combineSegments(c) ==
    /\ calls[c].kind = "fin" /\ calls[c].pc = "finCombine"
    /\ putObject(ConsolidatedKey, << "consolidated", calls[c].keys >>)
    /\ calls' = [calls EXCEPT ![c].pc = "finInvokeFinalizer"]
    /\ UNCHANGED << quota, mq, session, chunks, segments, summarizerCalls,
                    finalizerCalls, started, rollingParts >>

\* a variant with a guard: the finalizer is invoked for the first request only
finalize_invokeFinalizerLambda_Once(c) ==
    /\ calls[c].kind = "fin" /\ calls[c].pc = "finInvokeFinalizer"
    /\ IF getSession(session).found
       THEN /\ finalizerCalls' = IF finalizerCalls = 0 THEN 1 ELSE finalizerCalls
            /\ calls' = [calls EXCEPT ![c].pc = "finComplete", ![c].keys = << >>]
       ELSE /\ finalizerCalls' = finalizerCalls
            /\ calls' = [calls EXCEPT ![c] = Finish(c, "error")]
    /\ UNCHANGED << quota, mq, session, chunks, segments, s3, s3Puts, summarizerCalls,
                    started, rollingParts >>

\* SummarizerService.invokeFinalizerLambda: throws if the session is missing
finalize_invokeFinalizerLambda(c) ==
    /\ calls[c].kind = "fin" /\ calls[c].pc = "finInvokeFinalizer"
    /\ IF getSession(session).found
       THEN /\ finalizerCalls' = finalizerCalls + 1
            /\ calls' = [calls EXCEPT ![c].pc = "finComplete", ![c].keys = << >>]
       ELSE /\ finalizerCalls' = finalizerCalls
            /\ calls' = [calls EXCEPT ![c] = Finish(c, "error")]
    /\ UNCHANGED << quota, mq, session, chunks, segments, s3, s3Puts, summarizerCalls,
                    started, rollingParts >>

finalize_complete(c) ==
    /\ calls[c].kind = "fin" /\ calls[c].pc = "finComplete"
    /\ session' = HSet(session, [status |-> "COMPLETE"])
    /\ calls' = [calls EXCEPT ![c] = Finish(c, "ok")]
    /\ UNCHANGED << quota, mq, chunks, segments, s3, s3Puts, summarizerCalls,
                    finalizerCalls, started, rollingParts >>

\* ------------------- StateService, the revision with the dedup watermark
\* (src/unnamed/part_001).  handleSuccess has no idempotency guard here, and
\* mergeAndMaybeSummarize drops the words that end at or before the
\* watermark lastKeptEndSeconds (minus epsilon) of the session it read.
EPSILON == 15

\* Math.max(0, ...kept.map((w) => w.end || 0))
RECURSIVE maxEndInChunk(_)
maxEndInChunk(words) ==
    IF words = << >> THEN 0
    ELSE MathMax(NumberOrZero(Head(words).end), maxEndInChunk(Tail(words)))

\* the loop over kept: end > session.lastKeptEndSeconds - epsilon, on the
\* object getSession returned
keptAfterWatermark(words, sess) ==
    SelectSeq(words, LAMBDA w :
        JsGreater(Coalesce(w.end, 0),
                  JsMinus(Prop(sess, "lastKeptEndSeconds"), EPSILON)))

\* Math.max(session.lastKeptEndSeconds, maxEndInChunk)
newEnd(sess, words) == MathMax(Prop(sess, "lastKeptEndSeconds"), maxEndInChunk(words))

\* (session.rollingText || '') + (text ? ' ' + text : '')
wm_combinedText(rollingText, text) ==
    rollingText \o (IF text # EmptyText THEN << SP >> \o text ELSE << >>)

\* (Number(startMs) || 0) / 1000, in centiseconds
offsetSeconds(startMs) == NumberOrZero(startMs) \div 10

\* flattenWords(output): the offset computed by handleSuccess is not passed on
WordsOf == [q \in Seqs |-> flattenWords(OutputOf(q), 0)]

wm_Text(c) == cleanJoin(keptAfterWatermark(WordsOf[calls[c].seq], calls[c].sess))
wm_NewTokenCount(c) == calls[c].sess.rollingTokenCount + estimateTokens(wm_Text(c))
wm_Combined(c) == wm_combinedText(calls[c].sess.rollingText, wm_Text(c))
wm_ShouldCut(c) == shouldSummarize(wm_Combined(c), wm_NewTokenCount(c), tokenThreshold)

\* the callback is accepted and the transcript is written at once
wm_handleSuccess_putObject(c, seq) ==
    /\ CanStart(c)
    /\ started' = started + 1
    /\ putObject(TranscriptKey(seq), << "transcript", seq >>)
    /\ calls' = [calls EXCEPT ![c] =
                   [IdleCall EXCEPT !.kind = "wm", !.seq = seq,
                                    !.pc = "updateChunk",
                                    !.after = {d \in Calls : calls[d].pc = "done"}]]
    /\ UNCHANGED << quota, mq, session, chunks, segments, summarizerCalls,
                    finalizerCalls, rollingParts >>

wm_handleSuccess_updateChunk(c) ==
    /\ calls[c].kind = "wm" /\ calls[c].pc = "updateChunk"
    /\ chunks' = [chunks EXCEPT ![calls[c].seq] =
                    HSet(@, [status |-> "SUCCEEDED",
                             transcriptS3Key |-> TranscriptKey(calls[c].seq),
                             language |-> OutputOf(calls[c].seq).language])]
    /\ calls' = [calls EXCEPT ![c].pc = "getSession"]
    /\ UNCHANGED << quota, mq, session, segments, s3, s3Puts, summarizerCalls,
                    finalizerCalls, started, rollingParts >>

wm_merge_getSession(c) ==
    /\ calls[c].kind = "wm" /\ calls[c].pc = "getSession"
    /\ LET s == getSession(session) IN
       calls' = [calls EXCEPT ![c].sess = s, ![c].parts = rollingParts,
                              ![c].pc = IF s.found THEN "merge" ELSE "createSession"]
    /\ UNCHANGED << quota, mq, session, chunks, segments, s3, s3Puts, summarizerCalls,
                    finalizerCalls, started, rollingParts >>

wm_merge_createSession(c) ==
    /\ calls[c].kind = "wm" /\ calls[c].pc = "createSession"
    /\ session' = HSet(session, [sessionId |-> "s1", status |-> "TRANSCRIBING",
                                 lastKeptEndSeconds |-> 0,
                                 rollingTokenCount |-> 0, nextSegmentIndex |-> 0,
                                 endRequested |-> FALSE, rollingText |-> EmptyText])
    /\ rollingParts' = << >>
    /\ calls' = [calls EXCEPT ![c].pc = "getSessionAgain"]
    /\ UNCHANGED << quota, mq, chunks, segments, s3, s3Puts, summarizerCalls,
                    finalizerCalls, started >>

wm_merge_getSessionAgain(c) ==
    /\ calls[c].kind = "wm" /\ calls[c].pc = "getSessionAgain"
    /\ LET s == getSession(session) IN
       calls' = [calls EXCEPT ![c] =
                   IF s.found
                   THEN [@ EXCEPT !.sess = s, !.parts = rollingParts, !.pc = "merge"]
                   ELSE Finish(c, "error")]
    /\ UNCHANGED << quota, mq, session, chunks, segments, s3, s3Puts, summarizerCalls,
                    finalizerCalls, started, rollingParts >>

\* below the threshold: store the rolling state and the new watermark
wm_merge_updateSession(c) ==
    /\ calls[c].kind = "wm" /\ calls[c].pc = "merge"
    /\ ~wm_ShouldCut(c)
    /\ session' = HSet(session,
                       [rollingText |-> wm_Combined(c),
                        rollingTokenCount |-> wm_NewTokenCount(c),
                        lastKeptEndSeconds |->
                            newEnd(calls[c].sess, WordsOf[calls[c].seq])])
    /\ rollingParts' = Append(calls[c].parts, wm_Text(c))
    /\ calls' = [calls EXCEPT ![c] = Finish(c, "ok")]
    /\ UNCHANGED << quota, mq, chunks, segments, s3, s3Puts, summarizerCalls,
                    finalizerCalls, started >>

\* at or above the threshold: the segment row, then the reset of the
\* rolling state with the new watermark, the segment input and the summarizer
wm_merge_createSegment(c) ==
    /\ calls[c].kind = "wm" /\ calls[c].pc = "merge"
    /\ wm_ShouldCut(c)
    /\ LET idx == calls[c].sess.nextSegmentIndex IN
       /\ segments' = [segments EXCEPT ![idx] =
                         HSet(@, [sessionId |-> "s1", segmentIndex |-> idx,
                                  status |-> "PENDING",
                                  tokenCount |-> wm_NewTokenCount(c)])]
       /\ calls' = [calls EXCEPT ![c].idx = idx, ![c].pc = "resetRolling"]
    /\ UNCHANGED << quota, mq, session, chunks, s3, s3Puts, summarizerCalls,
                    finalizerCalls, started, rollingParts >>

wm_merge_resetRolling(c) ==
    /\ calls[c].kind = "wm" /\ calls[c].pc = "resetRolling"
    /\ session' = HSet(session,
                       [nextSegmentIndex |-> calls[c].idx + 1,
                        rollingTokenCount |-> 0,
                        rollingText |-> EmptyText,
                        lastKeptEndSeconds |->
                            newEnd(calls[c].sess, WordsOf[calls[c].seq])])
    /\ rollingParts' = << >>
    /\ calls' = [calls EXCEPT ![c].pc = "putSegInput"]
    /\ UNCHANGED << quota, mq, chunks, segments, s3, s3Puts, summarizerCalls,
                    finalizerCalls, started >>

wm_merge_putObject(c) ==
    /\ calls[c].kind = "wm" /\ calls[c].pc = "putSegInput"
    /\ putObject(SegInputKey(calls[c].idx), Trim(wm_Combined(c)))
    /\ calls' = [calls EXCEPT ![c].pc = "summarizing", ![c].sess = NullSession,
                              ![c].parts = << >>]
    /\ UNCHANGED << quota, mq, session, chunks, segments, summarizerCalls,
                    finalizerCalls, started, rollingParts >>

\* The branch that cuts a segment is dead in this revision: getSession does
\* not return lastKeptEndSeconds, so session.lastKeptEndSeconds - epsilon is
\* NaN, no word passes the comparison, the merged text is empty and
\* combinedText.trim().length > 0 never holds.  WatermarkCutUnreachable is
\* the invariant of SpecWM that says so; the next-state relation of SpecWM
\* therefore consists of the steps up to wm_merge_updateSession.
WatermarkCutUnreachable ==
    \A c \in Calls : calls[c].kind = "wm" /\ calls[c].pc = "merge" => ~wm_ShouldCut(c)

\* ------------------------------------------ UploadController.uploadChunk
\* (a request without business identifiers: the updateSession of the
\* identifiers is skipped)
upload_putObject(c, seq) ==
    /\ CanStart(c)
    /\ seq \in quota.seqs
    /\ started' = started + 1
    /\ putObject(RawKey(seq), << "audio", seq >>)
    /\ calls' = [calls EXCEPT ![c] =
                   [IdleCall EXCEPT !.kind = "up", !.seq = seq,
                                    !.pc = "upGetSession"]]
    /\ UNCHANGED << quota, mq, session, chunks, segments, summarizerCalls,
                    finalizerCalls, rollingParts >>

upload_getSession(c) ==
    /\ calls[c].kind = "up" /\ calls[c].pc = "upGetSession"
    /\ calls' = [calls EXCEPT ![c].pc = IF getSession(session).found
                                        THEN "upCreateChunk"
                                        ELSE "upCreateSession"]
    /\ UNCHANGED << quota, mq, session, chunks, segments, s3, s3Puts,
                    summarizerCalls, finalizerCalls, started, rollingParts >>

upload_createSession(c) ==
    /\ calls[c].kind = "up" /\ calls[c].pc = "upCreateSession"
    /\ session' = HSet(session, [sessionId |-> "s1", status |-> "TRANSCRIBING",
                                 rollingTokenCount |-> 0, nextSegmentIndex |-> 0,
                                 endRequested |-> FALSE, rollingText |-> EmptyText])
    /\ rollingParts' = << >>
    /\ calls' = [calls EXCEPT ![c].pc = "upCreateChunk"]
    /\ UNCHANGED << quota, mq, chunks, segments, s3, s3Puts, summarizerCalls,
                    finalizerCalls, started >>

\* RedisService.createChunk: HSET of the fields of a new chunk
upload_createChunk(c) ==
    /\ calls[c].kind = "up" /\ calls[c].pc = "upCreateChunk"
    /\ chunks' = [chunks EXCEPT ![calls[c].seq] =
                    HSet(@, [sessionId |-> "s1", seq |-> calls[c].seq,
                             s3Key |-> RawKey(calls[c].seq),
                             startMs |-> StartMsOf(calls[c].seq),
                             status |-> "UPLOADED", attempt |-> 0])]
    /\ calls' = [calls EXCEPT ![c].pc = "upPublish"]
    /\ UNCHANGED << quota, mq, session, segments, s3, s3Puts, summarizerCalls,
                    finalizerCalls, started, rollingParts >>

\* RabbitService.publish: one more message for the chunk in the queue
upload_publish(c) ==
    /\ calls[c].kind = "up" /\ calls[c].pc = "upPublish"
    /\ mq' = [mq EXCEPT !.queue[calls[c].seq] = @ + 1]
    /\ calls' = [calls EXCEPT ![c].pc = "upUpdateChunk"]
    /\ UNCHANGED << quota, session, chunks, segments, s3, s3Puts,
                    summarizerCalls, finalizerCalls, started, rollingParts >>

upload_updateChunk(c) ==
    /\ calls[c].kind = "up" /\ calls[c].pc = "upUpdateChunk"
    /\ chunks' = [chunks EXCEPT ![calls[c].seq] = HSet(@, [status |-> "ENQUEUED"])]
    /\ calls' = [calls EXCEPT ![c] = Finish(c, "ok")]
    /\ UNCHANGED << quota, mq, session, segments, s3, s3Puts, summarizerCalls,
                    finalizerCalls, started, rollingParts >>

\* ------------------------------------------ ConsumerService.handleMessage
\* RabbitService.consume hands a queued message to handleMessage, which
\* first presigns the audio URL
consumer_presignGet(c, seq) ==
    /\ CanStart(c)
    /\ mq.queue[seq] > 0
    /\ started' = started + 1
    /\ mq' = [mq EXCEPT !.queue[seq] = @ - 1]
    /\ calls' = [calls EXCEPT ![c] =
                   [IdleCall EXCEPT !.kind = "mq", !.seq = seq, !.pc = "cmFetch"]]
    /\ UNCHANGED << quota, session, chunks, segments, s3, s3Puts,
                    summarizerCalls, finalizerCalls, rollingParts >>

\* a variant that does not look at res.ok
consumer_fetch_IgnoreStatus(c, accepted) ==
    /\ calls[c].kind = "mq" /\ calls[c].pc = "cmFetch"
    /\ mq' = IF accepted THEN [mq EXCEPT !.jobs = @ \cup {calls[c].seq}] ELSE mq
    /\ calls' = [calls EXCEPT ![c].pc = "cmUpdateChunk"]
    /\ UNCHANGED << quota, session, chunks, segments, s3, s3Puts,
                    summarizerCalls, finalizerCalls, started, rollingParts >>

\* the submission to the remote worker: accepted, or refused (!res.ok),
\* in which case handleMessage throws and the consume wrapper nacks the
\* message without requeue
consumer_fetch(c, accepted) ==
    /\ calls[c].kind = "mq" /\ calls[c].pc = "cmFetch"
    /\ IF accepted
       THEN /\ mq' = [mq EXCEPT !.jobs = @ \cup {calls[c].seq}]
            /\ calls' = [calls EXCEPT ![c].pc = "cmUpdateChunk"]
       ELSE /\ mq' = [mq EXCEPT !.nacks[c] = @ + 1]
            /\ calls' = [calls EXCEPT ![c] = Finish(c, "error")]
    /\ UNCHANGED << quota, session, chunks, segments, s3, s3Puts,
                    summarizerCalls, finalizerCalls, started, rollingParts >>

\* the last statement of handleMessage; the consume wrapper then acks
consumer_updateChunk(c) ==
    /\ calls[c].kind = "mq" /\ calls[c].pc = "cmUpdateChunk"
    /\ chunks' = [chunks EXCEPT ![calls[c].seq] =
                    HSet(@, [status |-> "QUEUED_REMOTE",
                             runpodJobId |-> << "job", calls[c].seq >>])]
    /\ mq' = [mq EXCEPT !.acks[c] = @ + 1]
    /\ calls' = [calls EXCEPT ![c] = Finish(c, "ok")]
    /\ UNCHANGED << quota, session, segments, s3, s3Puts, summarizerCalls,
                    finalizerCalls, started, rollingParts >>

\* ------------------------------------------------------ a rejected await
\* The operation a request is waiting for (Redis, S3, queue, lambda, the
\* remote worker) rejects: it has no effect and the exception leaves the
\* handler, which has no catch that swallows it (the catch blocks of
\* handleSuccess, runpodCallback and handleMessage log and rethrow).  For a
\* queue message the consume wrapper catches it and nacks without requeue.
\* a variant in which the handler swallows the exception and returns normally
throws_Swallowed(c) ==
    /\ quota.faults
    /\ c \in InFlight
    /\ calls' = [calls EXCEPT ![c] = Finish(c, "ok")]
    /\ mq' = IF calls[c].kind = "mq" THEN [mq EXCEPT !.acks[c] = @ + 1] ELSE mq
    /\ UNCHANGED << quota, session, chunks, segments, s3, s3Puts,
                    summarizerCalls, finalizerCalls, started, rollingParts >>

throws(c) ==
    /\ quota.faults
    /\ c \in InFlight
    /\ calls' = [calls EXCEPT ![c] = Finish(c, "error")]
    /\ mq' = IF calls[c].kind = "mq" THEN [mq EXCEPT !.nacks[c] = @ + 1] ELSE mq
    /\ UNCHANGED << quota, session, chunks, segments, s3, s3Puts,
                    summarizerCalls, finalizerCalls, started, rollingParts >>

\* -------------------------------------- CallbackController.runpodCallback
\* a variant that records every status it is given
ChunkStatusFor_AnyStatus(status) ==
    CASE status = "IN_QUEUE" -> "QUEUED_REMOTE"
      [] status \in {"SUCCEEDED", "COMPLETED"} -> "none"
      [] OTHER -> status

\* the chunk status a callback status is recorded as
ChunkStatusFor(status) ==
    CASE status = "IN_QUEUE" -> "QUEUED_REMOTE"
      [] status = "IN_PROGRESS" -> "IN_PROGRESS"
      [] status = "FAILED" -> "FAILED"
      [] status = "CANCELLED" -> "CANCELLED"
      [] OTHER -> "none"

\* IN_QUEUE, IN_PROGRESS, FAILED, CANCELLED: StateService.setChunkStatus,
\* a single updateChunk
\* (errorCode, errorMessage: the body's fields, read for FAILED and CANCELLED)
callback_setChunkStatus(c, seq, rawStatus, errorCode, errorMessage) ==
    /\ CallbackArrives(c, seq)
    /\ errorCode \in quota.errors /\ errorMessage \in quota.errors
    /\ LET status == toUpperCase(rawStatus) IN
       /\ ChunkStatusFor(status) # "none"
       /\ status \notin {"FAILED", "CANCELLED"}
          => errorCode = absent /\ errorMessage = absent
       /\ chunks' = [chunks EXCEPT ![seq] =
                       HSet(@, IF status \in {"FAILED", "CANCELLED"}
                               THEN [status |-> ChunkStatusFor(status),
                                     errorCode |->
                                        NullishToEmpty(OrNull(errorCode)),
                                     errorMessage |->
                                        NullishToEmpty(OrNull(errorMessage))]
                               ELSE [status |-> ChunkStatusFor(status)])]
    /\ started' = started + 1
    /\ calls' = [calls EXCEPT ![c] =
                   [IdleCall EXCEPT !.kind = "cb", !.seq = seq, !.pc = "done",
                                    !.status = rawStatus, !.result = "ok",
                                    !.errorCode = errorCode,
                                    !.errorMessage = errorMessage]]
    /\ UNCHANGED << quota, mq, session, segments, s3, s3Puts, summarizerCalls,
                    finalizerCalls, rollingParts >>

\* any other status: { ok: true, ignored: true }
callback_ignored(c, seq, rawStatus) ==
    /\ CallbackArrives(c, seq)
    /\ ChunkStatusFor(toUpperCase(rawStatus)) = "none"
    /\ toUpperCase(rawStatus) \notin {"SUCCEEDED", "COMPLETED"}
    /\ started' = started + 1
    /\ calls' = [calls EXCEPT ![c] =
                   [IdleCall EXCEPT !.kind = "cb", !.seq = seq, !.pc = "done",
                                    !.status = rawStatus,
                                    !.result = "ignored"]]
    /\ UNCHANGED << quota, mq, session, chunks, segments, s3, s3Puts,
                    summarizerCalls, finalizerCalls, rollingParts >>

\* ------------------------- RedisService.createSegment, collapsed layout
\* one hash per session holds the fields of every segment; createSegment
\* writes each field of the segment, '' for one it was not given, and
\* getSegment reads '' back as null
collapsed_createSegment(segment) ==
    [sessionId |-> segment.sessionId,
     segmentIndex |-> segment.segmentIndex,
     status |-> segment.status,
     tokenCount |-> IF "tokenCount" \in DOMAIN segment
                    THEN segment.tokenCount ELSE undefined,
     summaryS3Key |-> NoKey]

collapsed_merge_createSegment(c) ==
    /\ calls[c].kind = "hs" /\ calls[c].pc = "merge"
    /\ ShouldCut(c)
    /\ LET idx == calls[c].sess.nextSegmentIndex IN
       /\ segments' = [segments EXCEPT ![idx] =
                         HSet(@, collapsed_createSegment(
                                    [sessionId |-> "s1", segmentIndex |-> idx,
                                     status |-> "PENDING",
                                     tokenCount |-> NewTokenCount(c)]))]
       /\ calls' = [calls EXCEPT ![c].idx = idx, ![c].pc = "resetRolling"]
    /\ UNCHANGED << quota, mq, session, chunks, s3, s3Puts, summarizerCalls,
                    finalizerCalls, started, rollingParts >>

collapsed_finalize_createSegment(c) ==
    /\ calls[c].kind = "fin" /\ calls[c].pc = "finCreateSegment"
    /\ segments' = [segments EXCEPT ![calls[c].idx] =
                      HSet(@, collapsed_createSegment(
                                 [sessionId |-> "s1",
                                  segmentIndex |-> calls[c].idx,
                                  status |-> "PENDING"]))]
    /\ calls' = [calls EXCEPT ![c].pc = "summarizing"]
    /\ UNCHANGED << quota, mq, session, chunks, s3, s3Puts, summarizerCalls,
                    finalizerCalls, started, rollingParts >>

\* ---------------------------------------------------------- specification
Next ==
    \/ \E c \in Calls, seq \in Seqs, st \in SuccessInputs :
         handleSuccess_getChunk(c, seq, st)
    \/ \E c \in Calls : handleSuccess_putObject(c)
    \/ \E c \in Calls : handleSuccess_updateChunk(c)
    \/ \E c \in Calls : merge_getSession(c)
    \/ \E c \in Calls : merge_createSession(c)
    \/ \E c \in Calls : merge_getSessionAgain(c)
    \/ \E c \in Calls : merge_updateSession(c)
    \/ \E c \in Calls : merge_createSegment(c)
    \/ \E c \in Calls : merge_resetRolling(c)
    \/ \E c \in Calls : merge_putObject(c)
    \/ \E c \in Calls : summarizer_updateSegment(c)
    \/ \E c \in Calls, p \in Payloads : summarizer_lambda(c, p)
    \/ \E c \in Calls : summarizer_putObject(c)
    \/ \E c \in Calls : summarizer_markSucceeded(c)
    \/ \E c \in Calls : finalize_updateSession(c)
    \/ \E c \in Calls : finalize_getSession(c)
    \/ \E c \in Calls : finalize_putObject(c)
    \/ \E c \in Calls : finalize_createSegment(c)
    \/ \E c \in Calls : finalize_resetRolling(c)
    \/ \E c \in Calls : finalize_getSegments(c)
    \/ \E c \in Calls : finalize_combineSegments(c)
    \/ \E c \in Calls : finalize_invokeFinalizerLambda(c)
    \/ \E c \in Calls : finalize_complete(c)

Spec == Init /\ [][Next]_vars

SpecRace == InitRace /\ [][Next]_vars
SpecFinalize == InitFinalize /\ [][Next]_vars
SpecSummarizer == InitSummarizer /\ [][Next]_vars

\* the same requests on the collapsed segment layout
NextCollapsed ==
    \/ \E c \in Calls, seq \in Seqs, st \in SuccessInputs :
         handleSuccess_getChunk(c, seq, st)
    \/ \E c \in Calls : handleSuccess_putObject(c)
    \/ \E c \in Calls : handleSuccess_updateChunk(c)
    \/ \E c \in Calls : merge_getSession(c)
    \/ \E c \in Calls : merge_createSession(c)
    \/ \E c \in Calls : merge_getSessionAgain(c)
    \/ \E c \in Calls : merge_updateSession(c)
    \/ \E c \in Calls : collapsed_merge_createSegment(c)
    \/ \E c \in Calls : merge_resetRolling(c)
    \/ \E c \in Calls : merge_putObject(c)
    \/ \E c \in Calls : summarizer_updateSegment(c)
    \/ \E c \in Calls, p \in Payloads : summarizer_lambda(c, p)
    \/ \E c \in Calls : summarizer_putObject(c)
    \/ \E c \in Calls : summarizer_markSucceeded(c)
    \/ \E c \in Calls : finalize_updateSession(c)
    \/ \E c \in Calls : finalize_getSession(c)
    \/ \E c \in Calls : finalize_putObject(c)
    \/ \E c \in Calls : collapsed_finalize_createSegment(c)
    \/ \E c \in Calls : finalize_resetRolling(c)
    \/ \E c \in Calls : finalize_getSegments(c)
    \/ \E c \in Calls : finalize_combineSegments(c)
    \/ \E c \in Calls : finalize_invokeFinalizerLambda(c)
    \/ \E c \in Calls : finalize_complete(c)

SpecCollapsed == Init /\ [][NextCollapsed]_vars

\* success callbacks and finalize with rejected awaits
NextFault ==
    \/ Next
    \/ \E c \in Calls : throws(c)

SpecFault == InitFault /\ [][NextFault]_vars

\* the dispatcher: upload, publish, consume, submit
NextDispatch ==
    \/ \E c \in Calls, seq \in Seqs : upload_putObject(c, seq)
    \/ \E c \in Calls : upload_getSession(c)
    \/ \E c \in Calls : upload_createSession(c)
    \/ \E c \in Calls : upload_createChunk(c)
    \/ \E c \in Calls : upload_publish(c)
    \/ \E c \in Calls : upload_updateChunk(c)
    \/ \E c \in Calls, seq \in Seqs : consumer_presignGet(c, seq)
    \/ \E c \in Calls, accepted \in BOOLEAN : consumer_fetch(c, accepted)
    \/ \E c \in Calls : consumer_updateChunk(c)
    \/ \E c \in Calls : throws(c)

SpecDispatch == InitDispatch /\ [][NextDispatch]_vars


\* the watermark revision: success callbacks only
NextWM ==
    \/ \E c \in Calls, seq \in Seqs : wm_handleSuccess_putObject(c, seq)
    \/ \E c \in Calls : wm_handleSuccess_updateChunk(c)
    \/ \E c \in Calls : wm_merge_getSession(c)
    \/ \E c \in Calls : wm_merge_createSession(c)
    \/ \E c \in Calls : wm_merge_getSessionAgain(c)
    \/ \E c \in Calls : wm_merge_updateSession(c)

SpecWM == Init /\ [][NextWM]_vars

\* the callback endpoint alone: callbacks of every status, for any chunk
NextCallback ==
    \/ \E c \in Calls, seq \in Seqs, st \in StatusInputs :
         \E errorCode \in ErrorInputs, errorMessage \in ErrorInputs :
            callback_setChunkStatus(c, seq, st, errorCode, errorMessage)
    \/ \E c \in Calls, seq \in Seqs, st \in StatusInputs :
         callback_ignored(c, seq, st)
    \/ \E c \in Calls, seq \in Seqs, st \in SuccessInputs :
         handleSuccess_getChunk(c, seq, st)
    \/ \E c \in Calls : handleSuccess_putObject(c)
    \/ \E c \in Calls : handleSuccess_updateChunk(c)
    \/ \E c \in Calls : merge_getSession(c)
    \/ \E c \in Calls : merge_createSession(c)
    \/ \E c \in Calls : merge_getSessionAgain(c)
    \/ \E c \in Calls : merge_updateSession(c)
    \/ \E c \in Calls : merge_createSegment(c)
    \/ \E c \in Calls : merge_resetRolling(c)
    \/ \E c \in Calls : merge_putObject(c)
    \/ \E c \in Calls : summarizer_updateSegment(c)
    \/ \E c \in Calls, p \in Payloads : summarizer_lambda(c, p)
    \/ \E c \in Calls : summarizer_putObject(c)
    \/ \E c \in Calls : summarizer_markSucceeded(c)

SpecCallback == InitCallback /\ [][NextCallback]_vars
SpecCallbackBodies == InitCallbackBodies /\ [][NextCallback]_vars

\* In the pipeline a callback follows an upload of the same session, which
\* has created the session: mergeAndMaybeSummarize finds it.
SessionExistsAtMerge ==
    \A c \in Calls : calls[c].kind = "hs" => calls[c].pc # "createSession"

\* the life of a chunk: upload, queue consumer, callbacks of every status
\* (the handleSuccess steps without the createSession branch, which
\* SessionExistsAtMerge shows is not taken)
NextChunk ==
    \/ \E c \in Calls, seq \in Seqs : upload_putObject(c, seq)
    \/ \E c \in Calls : upload_getSession(c)
    \/ \E c \in Calls : upload_createSession(c)
    \/ \E c \in Calls : upload_createChunk(c)
    \/ \E c \in Calls : upload_publish(c)
    \/ \E c \in Calls : upload_updateChunk(c)
    \/ \E c \in Calls, seq \in Seqs : consumer_presignGet(c, seq)
    \/ \E c \in Calls, accepted \in BOOLEAN : consumer_fetch(c, accepted)
    \/ \E c \in Calls : consumer_updateChunk(c)
    \/ \E c \in Calls, seq \in Seqs, st \in StatusInputs :
         \E errorCode \in ErrorInputs, errorMessage \in ErrorInputs :
            callback_setChunkStatus(c, seq, st, errorCode, errorMessage)
    \/ \E c \in Calls, seq \in Seqs, st \in StatusInputs :
         callback_ignored(c, seq, st)
    \/ \E c \in Calls, seq \in Seqs, st \in SuccessInputs :
         handleSuccess_getChunk(c, seq, st)
    \/ \E c \in Calls : handleSuccess_putObject(c)
    \/ \E c \in Calls : handleSuccess_updateChunk(c)
    \/ \E c \in Calls : merge_getSession(c)
    \/ \E c \in Calls : merge_updateSession(c)
    \/ \E c \in Calls : merge_createSegment(c)
    \/ \E c \in Calls : merge_resetRolling(c)
    \/ \E c \in Calls : merge_putObject(c)
    \/ \E c \in Calls : summarizer_updateSegment(c)
    \/ \E c \in Calls, p \in Payloads : summarizer_lambda(c, p)
    \/ \E c \in Calls : summarizer_putObject(c)
    \/ \E c \in Calls : summarizer_markSucceeded(c)

SpecChunk == InitChunk /\ [][NextChunk]_vars

TypeOK ==
    /\ started \in 0..quota.calls
    /\ \A c \in Calls : calls[c].kind \in {"idle", "hs", "fin", "wm", "up", "mq", "cb"}

\* ================================================================ properties
\* what the store holds, read the way the services read it
Sess == getSession(session)
Watermark == Field(session, "lastKeptEndSeconds", undefined)
SegmentExists(i) == DOMAIN segments[i] # {}
SegmentIndices == {i \in SegIdx : SegmentExists(i)}
Quiescent == InFlight = {}

\* ceil(n / 4), written out
CeilDiv4(n) == (n \div 4) + (IF n % 4 = 0 THEN 0 ELSE 1)

NonBlank(text) == \E i \in 1..Len(text) : text[i] # SP

\* ---------------------------------------------------------------------- C1
\* C1: a handleSuccess call for a chunk that is already SUCCEEDED with a
\* transcript key returns at once: it writes nothing to object storage,
\* leaves the chunk, session and segment records as they were and does not
\* invoke the summarizer.  (Holds for the revision with the guard,
\* state.service.ts:147-154; the watermark revision has no such guard.)
C1_DuplicateSuccessIsNoOp ==
    [][\A c \in Calls, q \in Seqs :
         ( /\ calls[c].kind = "idle"
           /\ calls'[c].kind = "hs"
           /\ calls'[c].seq = q
           /\ Field(chunks[q], "status", "none") = "SUCCEEDED"
           /\ "transcriptS3Key" \in DOMAIN chunks[q] )
         => /\ calls'[c].pc = "done"
            /\ s3' = s3
            /\ s3Puts' = s3Puts
            /\ chunks' = chunks
            /\ session' = session
            /\ segments' = segments
            /\ summarizerCalls' = summarizerCalls]_vars

\* reached: a duplicate callback was received and returned
C1_Witness ==
    \E c \in Calls : calls[c].kind = "hs" /\ calls[c].pc = "done"
                     /\ calls[c].result = "duplicate"

\* ---------------------------------------------------------------------- C2
\* The outcome of a run, compared with what the same callbacks give when
\* they are handled one after the other.
Outcome == [rollingText |-> Sess.rollingText,
            rollingTokenCount |-> Sess.rollingTokenCount,
            nextSegmentIndex |-> Sess.nextSegmentIndex,
            segments |-> {<< i, Field(segments[i], "tokenCount", undefined) >> :
                            i \in SegmentIndices}]

EmptyOutcome == [rollingText |-> EmptyText, rollingTokenCount |-> 0,
                 nextSegmentIndex |-> 0, segments |-> {}]

\* one whole handleChunkSuccess, run alone, on the chunk's merged text
SerialStep(o, text) ==
    LET n == o.rollingTokenCount + CeilDiv4(Len(text))
        joined == IF o.rollingText = EmptyText THEN text
                  ELSE o.rollingText \o << SP >> \o text
    IN  IF n >= tokenThreshold /\ NonBlank(joined)
        THEN [rollingText |-> EmptyText, rollingTokenCount |-> 0,
              nextSegmentIndex |-> o.nextSegmentIndex + 1,
              segments |-> o.segments \cup {<< o.nextSegmentIndex, n >>}]
        ELSE [o EXCEPT !.rollingText = joined, !.rollingTokenCount = n]

\* the outcomes of every order of the calls in S, starting from outcome o;
\* a chunk that was already merged is skipped (the idempotency guard)
RECURSIVE SerialOutcomes(_, _, _)
SerialOutcomes(S, o, merged) ==
    IF S = {} THEN {o}
    ELSE UNION { SerialOutcomes(S \ {c},
                                IF calls[c].seq \in merged THEN o
                                ELSE SerialStep(o, TextOf(calls[c].seq)),
                                merged \cup {calls[c].seq}) : c \in S }

AllSuccessCallsReturned ==
    /\ started >= 2
    /\ \A c \in 1..started : calls[c].kind = "hs" /\ calls[c].pc = "done"
                             /\ calls[c].result # "error"
    /\ \A c, d \in 1..started : c # d => calls[c].seq # calls[d].seq

\* C2: when handleChunkSuccess calls for the same session (here: for
\* different chunks of it) interleave, the
\* result is the result of handling them in some serial order: no call's
\* text is dropped from rollingText and no segment index is cut twice.
C2_InterleavedMergesAreSerializable ==
    AllSuccessCallsReturned => Outcome \in SerialOutcomes(1..started, EmptyOutcome, {})

\* ---------------------------------------------------------------------- C3
\* a >= b on JavaScript numbers: false as soon as one side is not a number
JsAtLeast(a, b) == IsNumber(a) /\ IsNumber(b) /\ a >= b

\* C3: the stored watermark lastKeptEndSeconds never decreases: every step
\* that writes it leaves a value that is at least the value before.
C3_WatermarkNeverDecreases ==
    [][("lastKeptEndSeconds" \in DOMAIN session /\ Watermark' # Watermark)
         => JsAtLeast(Watermark', Watermark)]_vars

\* ---------------------------------------------------------------------- C4
\* C4: nextSegmentIndex never takes a value lower than one it had before,
\* whatever the interleaving of handleChunkSuccess and finalize.
C4_NextSegmentIndexNeverDecreases ==
    [][Sess'.nextSegmentIndex >= Sess.nextSegmentIndex]_vars

\* ---------------------------------------------------------------------- C5
\* C5: whenever no request is in progress, the segment records of the
\* session carry exactly the indices 0 .. nextSegmentIndex - 1.
C5_SegmentIndicesAreContiguous ==
    Quiescent => SegmentIndices = 0..(Sess.nextSegmentIndex - 1)

\* ---------------------------------------------------------------------- C6
\* the step of request c that follows the computation of shouldSummarize
MergeDecides(c) ==
    calls[c].kind = "hs" /\ calls[c].pc = "merge" /\ calls'[c] # calls[c]

\* the token count and the text the request arrives at, from what it read
TokensAfter(c) ==
    calls[c].sess.rollingTokenCount + CeilDiv4(Len(TextOf(calls[c].seq)))
TextAfter(c) == calls[c].sess.rollingText \o << SP >> \o TextOf(calls[c].seq)

\* C6: a merge cuts a segment exactly when the new token count reaches the
\* threshold and the combined text has a non-blank character; otherwise it
\* only stores the accumulated rollingText and rollingTokenCount, creates
\* no segment and returns without invoking the summarizer.
C6_CutExactlyAtThreshold ==
    [][\A c \in Calls : MergeDecides(c) =>
         IF TokensAfter(c) >= tokenThreshold /\ NonBlank(TextAfter(c))
         THEN /\ calls'[c].pc = "resetRolling"
              /\ SegmentExists(calls[c].sess.nextSegmentIndex)'
              /\ segments'[calls[c].sess.nextSegmentIndex].status = "PENDING"
         ELSE /\ calls'[c].pc = "done"
              /\ segments' = segments
              /\ summarizerCalls' = summarizerCalls
              /\ Sess'.rollingTokenCount = TokensAfter(c)
              /\ Trim(Sess'.rollingText) = Trim(TextAfter(c))
              /\ Sess'.nextSegmentIndex = Sess.nextSegmentIndex]_vars

\* reached: a merge that arrived exactly at the threshold has cut, and
\* a merge below it has stored rolling text
C6_Witness ==
    /\ \E i \in SegIdx : Field(segments[i], "tokenCount", undefined) = tokenThreshold
    /\ Sess.rollingTokenCount > 0
    /\ Sess.rollingTokenCount < tokenThreshold

\* ---------------------------------------------------------------------- C7
\* a text of n characters without blanks
Letters(n) == [i \in 1..n |-> "a"]

\* threshold 40: a chunk of 80 characters leaves 20 tokens and no cut; a
\* further chunk of 100 characters brings the count to 45 and cuts
ScenarioA ==
    LET t1 == Letters(80)
        t2 == Letters(100)
        count1 == 0 + estimateTokens(t1)
        text1 == combinedText(EmptyText, t1)
        count2 == count1 + estimateTokens(t2)
        text2 == combinedText(text1, t2)
    IN  /\ count1 = 20
        /\ ~shouldSummarize(text1, count1, 40)
        /\ count2 = 45
        /\ shouldSummarize(text2, count2, 40)

\* C7: the segment a merge cuts has the nextSegmentIndex the call read as
\* its index and the previous rollingTokenCount plus ceil(len(text)/4) as
\* its tokenCount; the write that follows leaves rollingText empty,
\* rollingTokenCount 0 and nextSegmentIndex one higher.  With threshold 40,
\* 80 and then 100 characters give 20 tokens and then a segment of 45.
C7_CutRecordsAndResets ==
    [][/\ ScenarioA
       /\ \A c \in Calls :
            /\ (MergeDecides(c) /\ calls'[c].pc = "resetRolling") =>
                 LET idx == calls[c].sess.nextSegmentIndex IN
                 /\ segments'[idx].segmentIndex = idx
                 /\ segments'[idx].tokenCount = TokensAfter(c)
                 /\ \A j \in SegIdx \ {idx} : segments'[j] = segments[j]
            /\ (calls[c].kind = "hs" /\ calls[c].pc = "resetRolling"
                  /\ calls'[c] # calls[c]) =>
                 /\ Sess'.rollingText = EmptyText
                 /\ Sess'.rollingTokenCount = 0
                 /\ Sess'.nextSegmentIndex = calls[c].sess.nextSegmentIndex + 1]_vars

\* reached: a cut that closed tokens accumulated by an earlier chunk, and
\* the reset after it
C7_Witness ==
    /\ \E i \in SegIdx : Field(segments[i], "tokenCount", undefined) > tokenThreshold
    /\ \E c \in Calls : calls[c].kind = "hs" /\ calls[c].pc = "putSegInput"
    /\ Sess.nextSegmentIndex = 1 /\ Sess.rollingText = EmptyText

\* ---------------------------------------------------------------------- C8
\* C8 as stated: rollingTokenCount is ceil(len(rollingText)/4) in every
\* state.  (Not so: the count is a sum of per-chunk estimates.)
C8_TokenCountIsEstimateOfRollingText ==
    Sess.rollingTokenCount = CeilDiv4(Len(Sess.rollingText))

RECURSIVE SumOfEstimates(_)
SumOfEstimates(parts) ==
    IF parts = << >> THEN 0
    ELSE CeilDiv4(Len(Head(parts))) + SumOfEstimates(Tail(parts))

\* C8, amended: rollingTokenCount is the sum of ceil(len(t)/4) over the
\* texts t appended to rollingText since it was last reset; it is
\* ceil(len(rollingText)/4) as long as at most one text was appended, and
\* it is 0 whenever rollingText is empty.
C8_TokenCountIsSumOfEstimates ==
    /\ Sess.rollingTokenCount = SumOfEstimates(rollingParts)
    /\ Len(rollingParts) <= 1 => C8_TokenCountIsEstimateOfRollingText
    /\ Sess.rollingText = EmptyText => Sess.rollingTokenCount = 0

\* reached: two texts were appended and the count differs from the
\* estimate of the whole
C8_Witness ==
    /\ Len(rollingParts) = 2
    /\ \A i \in 1..2 : rollingParts[i] # EmptyText
    /\ Sess.rollingTokenCount # CeilDiv4(Len(Sess.rollingText))

\* ---------------------------------------------------------------------- C9
\* the step in which request c of the watermark revision stores its merge
WatermarkMergeStores(c) ==
    calls[c].kind = "wm" /\ calls[c].pc = "merge" /\ calls'[c].pc = "done"

\* the words of a chunk that end after w - epsilon, joined
TextAfterWatermark(seq, w) ==
    cleanJoin(SelectSeq(WordsOf[seq], LAMBDA x : x.end > w - EPSILON))

\* C9: with w the watermark of the session when a chunk is merged, the text
\* the merge appends consists of exactly the chunk's words that end after
\* w - epsilon: none that ends at or before it, all that end after it.
C9_MergedTextRespectsWatermark ==
    [][\A c \in Calls : (WatermarkMergeStores(c) /\ IsNumber(Watermark)) =>
         Trim(Sess'.rollingText) =
           Trim(calls[c].sess.rollingText \o << SP >>
                  \o TextAfterWatermark(calls[c].seq, Watermark))]_vars

\* --------------------------------------------------------------------- C10
\* C10: chunk 1 has words ending at 10.00 and 10.30 s, chunk 2 words ending
\* at 10.20 and 10.35 s.  After chunk 1 alone the watermark is 10.3; merging
\* chunk 2 after it drops the word that ends at 10.20 and keeps the one that
\* ends at 10.35.
C10_OverlapScenario ==
    [][/\ ( /\ calls'[1].kind = "wm" /\ calls'[1].seq = 1
            /\ calls'[1].pc = "done" /\ calls'[2].kind = "idle" )
          => Watermark' = 1030
       /\ ( /\ calls[1].kind = "wm" /\ calls[1].seq = 1
            /\ calls[2].kind = "wm" /\ calls[2].seq = 2
            /\ calls[2].after = {1}
            /\ WatermarkMergeStores(2) )
          => Trim(Sess'.rollingText) =
               Trim(calls[2].sess.rollingText \o << SP, "i", "j", "k", "l" >>)]_vars

\* --------------------------------------------------------------------- C11
\* the largest of a set of times, 0 for none
MaxOf(S) == IF S = {} THEN 0 ELSE CHOOSE x \in S : \A y \in S : y <= x

\* the end times of the words the watermark revision flattens for a chunk
EndsOf(seq) == {WordsOf[seq][i].end : i \in 1..Len(WordsOf[seq])}

\* C11: the merge of a chunk stores max(old watermark, largest end time of
\* all the chunk's flattened words) as the new watermark; a chunk without
\* words leaves the watermark as it was.
C11_WatermarkIsMaxOfAllEnds ==
    [][\A c \in Calls : (WatermarkMergeStores(c) /\ IsNumber(Watermark)) =>
         Watermark' = MaxOf(EndsOf(calls[c].seq) \cup {Watermark})]_vars

\* --------------------------------------------------------------------- C12
\* the chunk-relative end time of every word of a transcription result,
\* with the fallbacks of flattenWords (end, else start, else segment start)
RECURSIVE RelativeEnds(_, _)
RelativeEnds(ws, base) ==
    IF ws = << >> THEN {}
    ELSE {Coalesce(Head(ws).end, Coalesce(Head(ws).start, base))}
         \cup RelativeEnds(Tail(ws), base)

RECURSIVE SegmentRelativeEnds(_)
SegmentRelativeEnds(segs) ==
    IF segs = << >> THEN {}
    ELSE (IF Head(segs).words # << >>
          THEN RelativeEnds(Head(segs).words, Coalesce(Head(segs).start, 0))
          ELSE {Coalesce(Head(segs).end, Coalesce(Head(segs).start, 0))})
         \cup SegmentRelativeEnds(Tail(segs))

ChunkRelativeEnds(seq) ==
    IF OutputOf(seq).word_timestamps # << >>
    THEN RelativeEnds(OutputOf(seq).word_timestamps, 0)
    ELSE SegmentRelativeEnds(OutputOf(seq).segments)

\* C12: the end times a merge compares with the watermark and folds into
\* it are the chunk-relative end times shifted once by the chunk's start
\* within the session, startMs / 1000 seconds.
C12_EndTimesAreShiftedByChunkStart ==
    [][\A c \in Calls : WatermarkMergeStores(c) =>
         EndsOf(calls[c].seq) =
           {e + offsetSeconds(StartMsOf(calls[c].seq)) :
              e \in ChunkRelativeEnds(calls[c].seq)}]_vars

\* --------------------------------------------------------------------- C13
\* sub occurs in text as a contiguous run of characters
Occurs(sub, text) ==
    \E i \in 1..(Len(text) - Len(sub) + 1) : SubSeq(text, i, i + Len(sub) - 1) = sub

\* the words of chunk seq are in rollingText or in a segment input
TextIsKept(seq) ==
    \/ Occurs(Texts[seq], Sess.rollingText)
    \/ \E i \in SegIdx : s3[SegInputKey(i)] # NoObject
                         /\ Occurs(Texts[seq], s3[SegInputKey(i)])

\* chunks 1 (words from 9.80 to 10.30 s) and 3 (from 20.00 s on) do not
\* overlap; the two calls are handled one after the other, in either order
TwoDisjointChunksHandled ==
    /\ calls[1].kind = "wm" /\ calls[1].pc = "done" /\ calls[1].result = "ok"
    /\ calls[2].kind = "wm" /\ calls[2].pc = "done" /\ calls[2].result = "ok"
    /\ calls[2].after = {1}
    /\ {calls[1].seq, calls[2].seq} = {1, 3}

\* C13: when two chunks with disjoint word time ranges have both been
\* handled, in whichever order, the words of both are in rollingText or in
\* the input text of a cut segment.
C13_ReorderedDeliveryLosesNoText ==
    TwoDisjointChunksHandled => TextIsKept(1) /\ TextIsKept(3)

\* --------------------------------------------------------------------- C14
RecognizedStatuses == {"IN_QUEUE", "IN_PROGRESS", "FAILED", "CANCELLED",
                       "SUCCEEDED", "COMPLETED"}

\* C14: a callback whose status, upper-cased, is none of IN_QUEUE,
\* IN_PROGRESS, FAILED, CANCELLED, SUCCEEDED, COMPLETED (a missing status
\* included) is acknowledged as ignored and changes no chunk, session or
\* segment record and writes nothing to object storage.
C14_UnknownStatusIsIgnored ==
    [][\A c \in Calls :
         ( /\ calls[c].kind = "idle"
           /\ calls'[c].kind = "cb"
           /\ toUpperCase(calls'[c].status) \notin RecognizedStatuses )
         => ( /\ calls'[c].pc = "done"
              /\ calls'[c].result = "ignored"
              /\ UNCHANGED << chunks, session, segments, s3, s3Puts >> )]_vars

\* the status UNKNOWN_FOO has been delivered for a chunk whose SUCCEEDED
\* record, and the session it was merged into, exist
C14_Witness ==
    /\ \E c \in Calls : calls[c].kind = "cb" /\ calls[c].status = "UNKNOWN_FOO"
                         /\ calls[c].result = "ignored"
                         /\ Field(chunks[calls[c].seq], "status", "none")
                              = "SUCCEEDED"
    /\ session # EmptyHash

\* --------------------------------------------------------------------- C15
ChunkStatus(seq) == Field(chunks[seq], "status", "none")

\* position of a chunk status on UPLOADED -> ENQUEUED -> QUEUED_REMOTE ->
\* IN_PROGRESS -> terminal
StatusRank(status) ==
    CASE status = "none" -> 0
      [] status = "UPLOADED" -> 1
      [] status = "ENQUEUED" -> 2
      [] status = "QUEUED_REMOTE" -> 3
      [] status = "IN_PROGRESS" -> 4
      [] OTHER -> 5

\* C15: under every interleaving of the upload handler, the queue consumer
\* and the callback handler for one chunk, a write of ENQUEUED,
\* QUEUED_REMOTE or IN_PROGRESS never replaces a later status of the chunk
\* with an earlier one.
C15_StatusWritesAreMonotone ==
    [][\A seq \in Seqs :
         ChunkStatus(seq)' \in {"ENQUEUED", "QUEUED_REMOTE", "IN_PROGRESS"}
         => StatusRank(ChunkStatus(seq)') >= StatusRank(ChunkStatus(seq))]_vars

\* --------------------------------------------------------------------- C16
SucceededWithTranscript(seq) ==
    /\ ChunkStatus(seq) = "SUCCEEDED"
    /\ Field(chunks[seq], "transcriptS3Key", NoKey) # NoKey

\* C16: once a chunk is SUCCEEDED with a transcript key, no callback
\* delivered later for that chunk (IN_QUEUE, IN_PROGRESS, FAILED or
\* CANCELLED) changes its status, so the guard of handleSuccess still
\* recognizes a duplicate SUCCEEDED callback.
C16_SucceededIsTerminal ==
    [][\A c \in Calls, seq \in Seqs :
         ( /\ calls[c].kind = "idle"
           /\ calls'[c].kind = "cb"
           /\ SucceededWithTranscript(seq) )
         => ( /\ ChunkStatus(seq)' = "SUCCEEDED"
              /\ IsDuplicateSuccess(getChunk(chunks[seq]))' )]_vars

\* --------------------------------------------------------------------- C17
\* C17: a step of an upload request for a chunk, delivered again after the
\* chunk has become SUCCEEDED with a transcript key, leaves the chunk
\* SUCCEEDED with its transcript key, so that a later SUCCEEDED callback
\* is still recognized as a duplicate and the text is not merged again.
C17_ReuploadKeepsSucceededChunk ==
    [][\A c \in Calls, seq \in Seqs :
         ( /\ calls[c].kind = "up" /\ calls[c].seq = seq
           /\ calls'[c] # calls[c]
           /\ \E d \in 1..(c - 1) : /\ calls[d].kind = "up"
                                    /\ calls[d].seq = seq
                                    /\ calls[d].pc = "done"
           /\ SucceededWithTranscript(seq) )
         => ( /\ SucceededWithTranscript(seq)'
              /\ IsDuplicateSuccess(getChunk(chunks[seq]))' )]_vars

\* --------------------------------------------------------------------- C18
\* the finalize call c has run, so far, with no other request beside it:
\* every other request had returned before it started or has not arrived
RunsAlone(c) ==
    \A d \in Calls \ {c} : calls[d].kind = "idle" \/ d \in calls[c].after

Contiguous == SegmentIndices = 0..(Sess.nextSegmentIndex - 1)

\* C18: a finalize call that finds a non-blank rollingText creates exactly
\* one more segment, at the nextSegmentIndex of the session it read, before
\* it collects the summaries, and leaves rollingText empty and
\* nextSegmentIndex one higher; a finalize call that finds rollingText
\* empty or blank creates no segment and leaves nextSegmentIndex as it was.
C18_FinalizeFlushesOneSegment ==
    [][\A c \in Calls :
         ( calls[c].kind = "fin" /\ calls'[c] # calls[c] /\ RunsAlone(c) )
         => /\ calls[c].pc = "finGetSession"
               => IF NonBlank(Sess.rollingText)
                  THEN /\ calls'[c].pc = "finPutSegInput"
                       /\ calls'[c].idx = Sess.nextSegmentIndex
                  ELSE /\ calls'[c].pc = "finGetSegments"
                       /\ UNCHANGED << session, segments >>
            /\ calls[c].pc = "finCreateSegment"
               => /\ calls[c].idx = Sess.nextSegmentIndex
                  /\ SegmentIndices' = SegmentIndices \cup {calls[c].idx}
                  /\ Contiguous => calls[c].idx \notin SegmentIndices
            /\ calls[c].pc # "finCreateSegment"
               => SegmentIndices' = SegmentIndices
            /\ calls[c].pc = "finResetRolling"
               => /\ SegmentExists(Sess.nextSegmentIndex)
                  /\ Sess'.rollingText = EmptyText
                  /\ Sess'.nextSegmentIndex = Sess.nextSegmentIndex + 1
                  /\ calls'[c].pc = "finGetSegments"
            /\ calls[c].pc # "finResetRolling"
               => Sess'.nextSegmentIndex = Sess.nextSegmentIndex
            /\ calls'[c].pc = "finCombine"
               => calls[c].pc = "finGetSegments"]_vars

\* a finalize call has returned after flushing the text "ab" of chunk 4,
\* merged before it started, into segment 0
C18_Witness ==
    \E c \in Calls :
        /\ calls[c].kind = "fin" /\ calls[c].pc = "done" /\ calls[c].result = "ok"
        /\ RunsAlone(c) /\ calls[c].after # {}
        /\ SegmentIndices = {0}
        /\ s3[SegInputKey(0)] = TextOf(4)
        /\ Sess.nextSegmentIndex = 1 /\ Sess.rollingText = EmptyText

\* --------------------------------------------------------------------- C19
HasSummaryKey(i) ==
    SegmentExists(i) /\ Field(segments[i], "summaryS3Key", NoKey) # NoKey
SummarizedIndices == {i \in SegIdx : HasSummaryKey(i)}

\* the n-th smallest index of a segment with a summary key
NthSummarized(n) ==
    CHOOSE i \in SummarizedIndices :
        Cardinality({k \in SummarizedIndices : k < i}) = n - 1

PastFinalizer ==
    {c \in Calls : /\ calls[c].kind = "fin"
                   /\ \/ calls[c].pc = "finComplete"
                      \/ calls[c].pc = "done" /\ calls[c].result = "ok"}

\* C20: the external finalizer has been invoked exactly once for each
\* finalize call that has reached the finalizer step; two finalize calls for
\* the session, one after the other, invoke it twice.
C20_FinalizerInvokedOncePerCall ==
    finalizerCalls = Cardinality(PastFinalizer)

\* two finalize calls, the second started after the first returned, have
\* both returned and the finalizer has been invoked twice
C20_Witness ==
    /\ \A c \in {1, 2} : calls[c].kind = "fin" /\ calls[c].pc = "done"
                           /\ calls[c].result = "ok"
    /\ calls[2].after = {1}
    /\ finalizerCalls = 2

\* --------------------------------------------------------------------- C21
\* only finalize requests have arrived: nothing has created the session
OnlyFinalizeSoFar == \A c \in Calls : calls[c].kind \in {"idle", "fin"}

\* C21: a finalize request for a session that has no record returns an
\* error and creates no session record, writes no consolidated artifact and
\* does not invoke the external finalizer.
C21_FinalizeWithoutSessionFails ==
    OnlyFinalizeSoFar
    => /\ session = EmptyHash
       /\ s3[ConsolidatedKey] = NoObject
       /\ finalizerCalls = 0
       /\ \A c \in Calls : calls[c].pc = "done" => calls[c].result = "error"

\* --------------------------------------------------------------------- C22
\* C22: when the summary lambda's answer does not parse, the summarizer
\* marks the segment FAILED and records no summary key, and the request
\* that cut the segment goes on instead of failing.
C22_MalformedSummaryMarksFailed ==
    [][\A c \in Calls :
         ( /\ calls[c].pc = "markSucceeded"
           /\ calls[c].payload = "malformed"
           /\ calls'[c] # calls[c] )
         => /\ Field(segments'[calls[c].idx], "status", "none") = "FAILED"
            /\ Field(segments'[calls[c].idx], "summaryS3Key", NoKey) = NoKey
            /\ calls'[c].result # "error"]_vars

\* --------------------------------------------------------------------- C23
\* C23: under every interleaving of success callbacks and finalize calls
\* the summarizer is invoked at most once for a segment index, and a
\* segment that has a summary key is never given one again.
C23_SummarizedAtMostOnce ==
    [][/\ \A i \in SegIdx : summarizerCalls'[i] <= 1
       /\ \A c \in Calls :
            ( calls[c].pc = "markSucceeded" /\ calls'[c] # calls[c] )
            => ~HasSummaryKey(calls[c].idx)]_vars

\* --------------------------------------------------------------------- C24
\* C24: when a request that cut a segment (a success callback at the
\* threshold, or finalize flushing the buffer) enters the summarizer, the
\* segment record exists, the rolling buffer has been reset and
\* nextSegmentIndex has been advanced past the segment.  Stated for a
\* request that runs with no other request beside it.
C24_CutStoredBeforeSummarizer ==
    [][\A c \in Calls :
         ( /\ calls[c].pc = "summarizing"
           /\ calls'[c] # calls[c]
           /\ RunsAlone(c) )
         => /\ SegmentExists(calls[c].idx)
            /\ Sess.rollingText = EmptyText
            /\ Sess.rollingTokenCount = 0
            /\ Sess.nextSegmentIndex > calls[c].idx]_vars

\* --------------------------------------------------------------------- C25
\* what a success callback writes to
HsStores == << session, chunks, segments, s3, s3Puts, summarizerCalls >>

\* C25: a success callback that has passed the idempotency check returns
\* ok only from its last statement, with that statement's write done; when
\* any awaited step rejects, the call returns an error at that point and the
\* step has written nothing.  In particular a chunk is SUCCEEDED only if its
\* transcript has been stored.
C25_FailurePropagates ==
    [][/\ \A c \in Calls :
            ( calls[c].kind = "hs" /\ calls[c].pc # "done"
              /\ calls'[c].pc = "done" )
            => \/ /\ calls'[c].result = "ok"
                  /\ calls[c].pc = "merge"
                  /\ Sess'.rollingText = Combined(c)
               \/ /\ calls'[c].result = "ok"
                  /\ calls[c].pc = "markSucceeded"
                  /\ Field(segments'[calls[c].idx], "summaryS3Key", NoKey) # NoKey
               \/ /\ calls'[c].result = "error"
                  /\ UNCHANGED HsStores
       /\ \A seq \in Seqs :
            ChunkStatus(seq)' = "SUCCEEDED"
            => s3'[TranscriptKey(seq)] # NoObject]_vars

\* the transcript write of chunk 4 was rejected: the call returned an error
\* and the chunk is not marked; the summary lambda call for the segment cut
\* from chunk 1 was rejected: that call returned an error too
C25_Witness ==
    /\ \E c \in Calls : /\ calls[c].kind = "hs" /\ calls[c].seq = 4
                         /\ calls[c].pc = "done" /\ calls[c].result = "error"
    /\ ChunkStatus(4) = "none" /\ s3[TranscriptKey(4)] = NoObject
    /\ \E c \in Calls : /\ calls[c].kind = "hs" /\ calls[c].seq = 1
                         /\ calls[c].pc = "done" /\ calls[c].result = "error"
    /\ Field(segments[0], "status", "none") = "SUMMARIZING"
    /\ summarizerCalls[0] = 0

\* --------------------------------------------------------------------- C26
SessionStatus == Field(session, "status", "none")

\* position of a session status on TRANSCRIBING -> FINALIZING -> COMPLETE
SessionRank(status) ==
    CASE status = "none" -> 0
      [] status = "TRANSCRIBING" -> 1
      [] status = "FINALIZING" -> 2
      [] status = "COMPLETE" -> 3
      [] OTHER -> 4

\* C26: no step of a success callback or of finalize writes the session
\* status back to an earlier one: a FINALIZING session never becomes
\* TRANSCRIBING again and a COMPLETE session stays COMPLETE.
C26_SessionStatusMovesForward ==
    [][SessionRank(SessionStatus') >= SessionRank(SessionStatus)]_vars

Consumed == {c \in Calls : calls[c].kind = "mq"}

\* C28: a consumed message is acked at most once and nacked at most once
\* and never both; when its handling is over it has been acked (handling
\* succeeded) or nacked (handling failed) exactly once.  The step that
\* nacks does not write the chunk; the step that acks is the one that set
\* the chunk to QUEUED_REMOTE.
C28_AckedOrNackedExactlyOnce ==
    [][/\ \A c \in Calls :
            /\ mq'.acks[c] + mq'.nacks[c] <= 1
            /\ (c \in Consumed' /\ calls'[c].pc = "done")
               => /\ mq'.acks[c] + mq'.nacks[c] = 1
                  /\ mq'.acks[c] = 1 <=> calls'[c].result = "ok"
            /\ (c \in Consumed' /\ calls'[c].pc # "done")
               => mq'.acks[c] + mq'.nacks[c] = 0
            /\ mq'.nacks[c] > mq.nacks[c] => UNCHANGED chunks
            /\ mq'.acks[c] > mq.acks[c]
               => /\ calls[c].pc = "cmUpdateChunk"
                  /\ ChunkStatus(calls[c].seq)' = "QUEUED_REMOTE"
                  /\ calls[c].seq \in mq.jobs]_vars

\* the message of chunk 1 was handed to handleMessage and the remote worker
\* refused the submission: the message has been nacked once and not acked,
\* it is not back in the queue, and the chunk is still ENQUEUED
C28_Witness ==
    \E c \in Consumed :
        /\ calls[c].seq = 1
        /\ calls[c].pc = "done" /\ calls[c].result = "error"
        /\ mq.nacks[c] = 1 /\ mq.acks[c] = 0
        /\ mq.queue[1] = 0 /\ 1 \notin mq.jobs
        /\ ChunkStatus(1) = "ENQUEUED"

\* --------------------------------------------------------------------- C29
\* the messages published so far for a chunk: queued or consumed
Published(seq) ==
    mq.queue[seq] + Cardinality({d \in Consumed : calls[d].seq = seq})

\* the upload requests received so far for a chunk
UploadsOf(seq) == {d \in Calls : calls[d].kind = "up" /\ calls[d].seq = seq}

\* C29: a chunk's message is published only when its record exists
\* (UPLOADED, for the first upload of the chunk); ENQUEUED is written only
\* by an upload whose publish has returned; QUEUED_REMOTE is written only
\* by the consumer after the remote worker accepted the submission; an
\* upload whose publish rejects ends with an error and leaves the chunk as
\* it was, UPLOADED.
C29_DispatcherTransitionsFollowTriggers ==
    [][\A seq \in Seqs :
         /\ mq'.queue[seq] > mq.queue[seq]
            => /\ ChunkStatus(seq) # "none"
               /\ Cardinality(UploadsOf(seq)) = 1 => ChunkStatus(seq) = "UPLOADED"
         /\ ( ChunkStatus(seq)' = "ENQUEUED" /\ chunks'[seq] # chunks[seq] )
            => /\ Published(seq) >= 1
               /\ \E c \in UploadsOf(seq) : /\ calls[c].pc = "upUpdateChunk"
                                             /\ calls'[c].pc = "done"
                                             /\ calls'[c].result = "ok"
         /\ ( ChunkStatus(seq)' = "QUEUED_REMOTE" /\ chunks'[seq] # chunks[seq] )
            => /\ seq \in mq.jobs
               /\ \E c \in Consumed : /\ calls[c].seq = seq
                                       /\ calls[c].pc = "cmUpdateChunk"
                                       /\ calls'[c].pc = "done"
         /\ \A c \in UploadsOf(seq) :
              ( calls[c].pc = "upPublish" /\ calls'[c].pc = "done" )
              => /\ calls'[c].result = "error"
                 /\ UNCHANGED << chunks, mq >>
                 /\ Cardinality(UploadsOf(seq)) = 1
                    => ChunkStatus(seq)' = "UPLOADED"]_vars

\* the publish of the only upload of chunk 1 was rejected: the upload has
\* returned an error, no message exists and the chunk is UPLOADED
C29_Witness ==
    /\ \E c \in Calls : /\ UploadsOf(1) = {c}
                         /\ calls[c].pc = "done" /\ calls[c].result = "error"
    /\ Published(1) = 0
    /\ ChunkStatus(1) = "UPLOADED"

\* --------------------------------------------------------------------- C30
\* the callback that call c is, when c has just been received
Received(c) == calls[c].kind = "idle" /\ calls'[c].kind \in {"cb", "hs"}

\* the chunk status the worker's status stands for, spelling by spelling
MappedStatus(rawStatus) ==
    CASE rawStatus = "in_queue" -> "QUEUED_REMOTE"
      [] rawStatus = "IN_PROGRESS" -> "IN_PROGRESS"
      [] rawStatus = "FAILED" -> "FAILED"
      [] rawStatus = "cancelled" -> "CANCELLED"
      [] OTHER -> "none"

\* C30: whatever the case of its letters, a callback with status IN_QUEUE
\* sets the chunk to QUEUED_REMOTE and one with IN_PROGRESS to IN_PROGRESS;
\* FAILED and CANCELLED set that status and store the body's errorCode and
\* errorMessage, which read back as null when the body has none; SUCCEEDED
\* and COMPLETED both start handleSuccess.  Of the chunk records only the
\* one named by the callback's seq is written, by the status callbacks and
\* by every step of handleSuccess.
C30_CallbackMapsStatuses ==
    [][\A c \in Calls :
         /\ Received(c)
            => LET raw == calls'[c].status
                   seq == calls'[c].seq
                   after == getChunk(chunks'[seq])
               IN  /\ MappedStatus(raw) # "none"
                      => /\ calls'[c].kind = "cb" /\ calls'[c].result = "ok"
                         /\ after.status = MappedStatus(raw)
                         /\ UNCHANGED << session, segments, s3 >>
                   /\ raw \in {"FAILED", "cancelled"}
                      => /\ Field(chunks'[seq], "errorCode", absent)
                            = ( IF calls'[c].errorCode = absent THEN ""
                                ELSE calls'[c].errorCode )
                         /\ Field(chunks'[seq], "errorMessage", absent)
                            = ( IF calls'[c].errorMessage = absent THEN ""
                                ELSE calls'[c].errorMessage )
                         /\ calls'[c].errorCode = absent
                            => after.errorCode = null
                         /\ calls'[c].errorMessage = absent
                            => after.errorMessage = null
                         /\ calls'[c].errorCode = "E42"
                            => after.errorCode = "E42"
                         /\ calls'[c].errorMessage = "E42"
                            => after.errorMessage = "E42"
                   /\ raw \in {"in_queue", "IN_PROGRESS"}
                      => /\ Field(chunks'[seq], "errorCode", absent)
                            = Field(chunks[seq], "errorCode", absent)
                         /\ Field(chunks'[seq], "errorMessage", absent)
                            = Field(chunks[seq], "errorMessage", absent)
                   /\ raw \in SuccessInputs
                      => /\ calls'[c].kind = "hs"
                         /\ calls'[c].pc = ( IF IsDuplicateSuccess(getChunk(chunks[seq]))
                                             THEN "done" ELSE "putTranscript" )
                   /\ \A q \in Seqs \ {seq} : chunks'[q] = chunks[q]
         /\ ( calls[c].kind = "hs" /\ calls'[c] # calls[c] )
            => \A q \in Seqs \ {calls[c].seq} : chunks'[q] = chunks[q]]_vars

\* chunk 1 was reported failed in lower case with an error code and no
\* message, and chunk 4 completed in lower case: chunk 1 is CANCELLED with
\* the code and a null message, chunk 4 is SUCCEEDED after handleSuccess ran
C30_Witness ==
    /\ \E c \in Calls : /\ calls[c].kind = "cb" /\ calls[c].seq = 1
                         /\ calls[c].status = "cancelled"
                         /\ calls[c].errorCode = "E42"
                         /\ calls[c].errorMessage = absent
    /\ getChunk(chunks[1]).status = "CANCELLED"
    /\ getChunk(chunks[1]).errorCode = "E42"
    /\ getChunk(chunks[1]).errorMessage = null
    /\ \E d \in Calls : /\ calls[d].kind = "hs" /\ calls[d].seq = 4
                         /\ calls[d].status = "completed"
                         /\ calls[d].pc = "getSession"
    /\ getChunk(chunks[4]).status = "SUCCEEDED"

\* --------------------------------------------------------------------- C31
\* old and new text joined by one space only when both are non-empty
AppendWithSpace(old, new) ==
    IF new = EmptyText THEN old
    ELSE IF old = EmptyText THEN new
    ELSE old \o << SP >> \o new

\* C31: the rolling text a merge stores is the text it read when the chunk's
\* text is empty, the chunk's text when the text it read is empty, and the
\* two joined by one space otherwise; a chunk with empty text leaves
\* rollingText and rollingTokenCount as the merge read them; the stored
\* rollingText never begins or ends with a space.
C31_AppendInsertsSingleSpace ==
    [][\A c \in Calls :
         ( /\ calls[c].kind = "hs" /\ calls[c].pc = "merge"
           /\ calls'[c].pc = "done" /\ calls'[c].result = "ok" )
         => /\ Field(session', "rollingText", EmptyText)
                 = AppendWithSpace(calls[c].sess.rollingText,
                                   TextOf(calls[c].seq))
            /\ Trim(Field(session', "rollingText", EmptyText))
                 = Field(session', "rollingText", EmptyText)
            /\ TextOf(calls[c].seq) = EmptyText
               => /\ Field(session', "rollingText", EmptyText)
                       = calls[c].sess.rollingText
                  /\ Field(session', "rollingTokenCount", 0)
                       = calls[c].sess.rollingTokenCount]_vars

\* --------------------------------------------------------------------- C32
\* data.tokenCount ? Number(data.tokenCount) : null, null read as undefined
TokenCountOf(seg) == Field(seg, "tokenCount", undefined)

\* C32: a segment record is created with a tokenCount equal to the session's
\* rolling token count at the cut, by the threshold cut of handleSuccess
\* (the count including the chunk that fills the segment) and by the flush
\* of a finalize that runs alone (the stored rollingTokenCount).
C32_SegmentRecordsTokenCount ==
    [][\A c \in Calls :
         /\ ( /\ calls[c].kind = "hs" /\ calls[c].pc = "merge"
              /\ calls'[c].pc = "resetRolling" )
            => TokenCountOf(segments'[calls'[c].idx]) = NewTokenCount(c)
         /\ ( /\ calls[c].kind = "fin" /\ calls[c].pc = "finCreateSegment"
              /\ calls'[c].pc = "summarizing"
              /\ RunsAlone(c) )
            => TokenCountOf(segments'[calls[c].idx])
                 = Field(session, "rollingTokenCount", 0)]_vars

\* --------------------------------------------------------------------- C33
\* C33: when the summary lambda is invoked for segment idx, the input object
\* segment-{idx}-input.txt has been written and the text sent to the lambda
\* is that object's content.
C33_SummarizerReceivesSegmentText ==
    [][\A c \in Calls :
         ( calls[c].pc = "lambda" /\ calls'[c].pc = "putSummary" )
         => /\ s3[SegInputKey(calls[c].idx)] # NoObject
            /\ calls'[c].text = s3[SegInputKey(calls[c].idx)]]_vars

\* --------------------------------------------------------------------- C34
\* C34: a handleSuccess call that found no session and creates it after
\* another call has created it does not fail: its createSession returns,
\* its re-read finds the session and the call goes on to the merge; no
\* handleSuccess call ends with an error.
C34_CreateRaceDoesNotFail ==
    [][\A c \in Calls :
         /\ ( calls[c].kind = "hs" /\ calls[c].pc = "createSession"
              /\ calls'[c] # calls[c] )
            => calls'[c].pc = "getSessionAgain"
         /\ ( calls[c].kind = "hs" /\ calls[c].pc = "getSessionAgain"
              /\ calls'[c] # calls[c] )
            => calls'[c].pc = "merge"
         /\ calls'[c].kind = "hs" => calls'[c].result # "error"]_vars

\* two first callbacks have both found the session absent and both have
\* run createSession, the second on the session the first had created
C34_Witness ==
    /\ \E c, d \in Calls : /\ c # d
                           /\ calls[c].kind = "hs" /\ calls[d].kind = "hs"
                           /\ calls[c].pc = "getSessionAgain"
                           /\ calls[d].pc = "getSessionAgain"
    /\ session # EmptyHash

\* --------------------------------------------------------------------- C35
\* a step in which call c runs createSession (handleSuccess or upload)
CreatesSession(c) ==
    \/ calls[c].kind = "hs" /\ calls[c].pc = "createSession"
                            /\ calls'[c].pc = "getSessionAgain"
    \/ calls[c].kind = "up" /\ calls[c].pc = "upCreateSession"
                            /\ calls'[c].pc = "upCreateChunk"

\* C35: a createSession that runs when the session already exists leaves the
\* stored rollingText, rollingTokenCount and nextSegmentIndex as they are.
C35_CreateNeverOverwrites ==
    [][\A c \in Calls :
         ( CreatesSession(c) /\ session # EmptyHash )
         => /\ Field(session', "rollingText", EmptyText)
                 = Field(session, "rollingText", EmptyText)
            /\ Field(session', "rollingTokenCount", 0)
                 = Field(session, "rollingTokenCount", 0)
            /\ Field(session', "nextSegmentIndex", 0)
                 = Field(session, "nextSegmentIndex", 0)]_vars

\* --------------------------------------------------------------------- C36
\* C36: a success callback is short-circuited as a duplicate only when
\* another handleSuccess call for the same chunk has completed, or is still
\* running: after a call that failed past the SUCCEEDED mark, the
\* redelivered callback is not short-circuited but runs the merge.
C36_RedeliveryCompletesFailedSuccess ==
    [][\A c \in Calls :
         ( /\ calls[c].kind = "idle"
           /\ calls'[c].kind = "hs"
           /\ calls'[c].result = "duplicate" )
         => \E d \in Calls \ {c} :
               /\ calls[d].kind = "hs"
               /\ calls[d].seq = calls'[c].seq
               /\ calls[d].pc # "done" \/ calls[d].result = "ok"]_vars

\* --------------------------------------------------------------------- C37
\* call d has created the segment calls[d].idx and is still running
HoldsSegment(d) ==
    \/ calls[d].kind = "hs"
       /\ calls[d].pc \in {"resetRolling", "putSegInput", "summarizing",
                           "lambda", "putSummary", "markSucceeded"}
    \/ calls[d].kind = "fin"
       /\ calls[d].pc \in {"summarizing", "lambda", "putSummary",
                           "markSucceeded", "finResetRolling"}

\* C37: the rolling text that finalize's reset clears is the text finalize
\* wrote as the segment's input, so text merged after finalize read the
\* session is not dropped; and while a finalize and a handleSuccess call
\* both run, neither creates a segment at the index the other has created.
C37_FinalizeRaceLosesNoText ==
    [][\A c \in Calls :
         /\ ( /\ calls[c].kind = "fin" /\ calls[c].pc = "finResetRolling"
              /\ calls'[c].pc = "finGetSegments" )
            => Trim(Field(session, "rollingText", EmptyText))
                 = s3[SegInputKey(calls[c].idx)]
         /\ ( \/ calls[c].kind = "fin" /\ calls[c].pc = "finCreateSegment"
                 /\ calls'[c].pc = "summarizing"
              \/ calls[c].kind = "hs" /\ calls[c].pc = "merge"
                 /\ calls'[c].pc = "resetRolling" )
            => ~ \E d \in Calls \ {c} :
                    /\ calls[d].kind # calls[c].kind
                    /\ HoldsSegment(d)
                    /\ calls[d].idx = calls'[c].idx]_vars

\* --------------------------------------------------------------------- C38
\* C38: whenever the session's status is COMPLETE its rollingText is empty.
C38_CompleteSessionHasNoRollingText ==
    SessionStatus = "COMPLETE" => Field(session, "rollingText", EmptyText) = EmptyText

\* --------------------------------------------------------------------- C39
SegmentStatus(i) == Field(segments[i], "status", "none")

\* C39: when the operation that cut a segment ends, with its summarizer
\* call returned or thrown, the segment's status is SUCCEEDED or FAILED: it
\* is not left PENDING or SUMMARIZING.
C39_SegmentReachesTerminalStatus ==
    [][\A c \in Calls :
         ( HoldsSegment(c) /\ calls'[c].pc = "done" )
         => SegmentStatus(calls[c].idx)' \in {"SUCCEEDED", "FAILED"}]_vars

\* --------------------------------------------------------------------- C40
\* C40: a chunk that is SUCCEEDED with a transcript key has its transcript
\* object in storage; a segment has a summary key if and only if its status
\* is SUCCEEDED, and then its summary object is in storage.
C40_RecordsPointAtStoredObjects ==
    /\ \A q \in Seqs :
         IsDuplicateSuccess(getChunk(chunks[q]))
         => /\ getChunk(chunks[q]).transcriptS3Key = TranscriptKey(q)
            /\ s3[TranscriptKey(q)] # NoObject
    /\ \A i \in SegIdx :
         /\ HasSummaryKey(i) <=> SegmentStatus(i) = "SUCCEEDED"
         /\ HasSummaryKey(i)
            => /\ segments[i].summaryS3Key = SummaryKey(i)
               /\ s3[SummaryKey(i)] # NoObject
====
